---- MODULE Spec2Model ----
(***************************************************************************)
(* The operator-precedence grouping of MathCAT's canonicalize.rs:          *)
(* find_operator, determine_vertical_bar_op, is_function_name, the         *)
(* shift/reduce stack machine of canonicalize_mrows_in_mrow, and the       *)
(* validation done by canonicalize before any grouping.                    *)
(*                                                                         *)
(* A node of the MathML tree is a record                                   *)
(*   [name, text, form, id, added, guess, attrs, chem, children]           *)
(* a leaf has children = <<>>, an mrow has text = "".  `id` stands for the *)
(* identity of an input leaf (its position among the siblings); nodes the  *)
(* scan creates have id = 0 and added = TRUE (data-changed='added').       *)
(***************************************************************************)
EXTENDS Naturals, Sequences, FiniteSets, TLC

VARIABLES
    children,      \* canonicalize_mrows_in_mrow: the local vector `children`
    i_child,       \* index of the next child to handle (1-based)
    parse_stack,   \* Vec<StackInfo>, bottom first
    pc,            \* "scan" | "reduced" | "done" | "panic"
    panic,         \* which assertion / unwrap failed ("none" when none)
    result,        \* the tree returned by canonicalize_mrows_in_mrow
    second,        \* the tree returned by the second canonicalize_mrows pass
    lastFind,      \* the last call of find_operator by the scan: arguments, result
    input_mrow,    \* the mrow element canonicalize_mrows_in_mrow was called with
    ctx,           \* where the scanned mrow sits: "script" (a non-base child of
                   \* msub, msup or msubsup) or "other"
    doc,           \* canonicalize: the input document
    cpc,           \* canonicalize: "start" | "error" | "valid" | "cleaned" | "grouped"
    ranClean,      \* canonicalize: clean_mathml has run
    ranGroup       \* canonicalize: canonicalize_mrows has run

vars == <<children, i_child, parse_stack, pc, panic, result, second, lastFind, input_mrow, ctx,
          doc, cpc, ranClean, ranGroup>>

scanVars == <<children, i_child, parse_stack, pc, panic, result, second, lastFind, input_mrow,
              ctx>>
canonVars == <<doc, cpc, ranClean, ranGroup>>

-----------------------------------------------------------------------------
(* Bounds of the model *)

MaxLen == 4        \* longest sibling sequence scanned
MaxArith == 5      \* longest sibling sequence of operands and arithmetic operators
MaxFence == 5      \* longest sibling sequence with parentheses
MaxKids == 3       \* most children of an element of a validated document
MaxRun == 6        \* most children of an mrow given to merge_number_blocks

-----------------------------------------------------------------------------
(* OperatorTypes, canonicalize.rs 97-108 *)

NONE == 0
PREFIX == 1
INFIX == 2
POSTFIX == 4
FENCE == 8
LEFT_FENCE == 9
RIGHT_FENCE == 12

Bit(x, k) == (x \div k) % 2

\* the `&` of two OperatorTypes bit sets
BitAnd(a, b) ==
    Bit(a, 1) * Bit(b, 1) + 2 * (Bit(a, 2) * Bit(b, 2))
      + 4 * (Bit(a, 4) * Bit(b, 4)) + 8 * (Bit(a, 8) * Bit(b, 8))

\* struct OperatorInfo; `key` is the address of the static (what ptr_eq compares),
\* the `next` chain is the tail of the dictionary entry holding it
OperatorInfo(key, op_type, priority) ==
    [key |-> key, op_type |-> op_type, priority |-> priority]

is_prefix(op) == BitAnd(op.op_type, PREFIX) # 0
is_infix(op) == BitAnd(op.op_type, INFIX) # 0
is_postfix(op) == BitAnd(op.op_type, POSTFIX) # 0
\* an is_right_fence that recognises no operator
is_right_fence_never(op) == FALSE

is_left_fence(op) == BitAnd(op.op_type, LEFT_FENCE) = LEFT_FENCE
is_right_fence(op) == BitAnd(op.op_type, RIGHT_FENCE) = RIGHT_FENCE
is_operator_type(op, op_type) == BitAnd(op.op_type, op_type) # 0

ptr_eq(a, b) == a.key = b.key

\* the attribute that marks a chemical bond, canonicalize.rs 26
CHEMICAL_BOND == "data-chemical-bond"

-----------------------------------------------------------------------------
(* The statics of canonicalize.rs 41-94 *)

LEFT_FENCEPOST == OperatorInfo("LEFT_FENCEPOST", LEFT_FENCE, 0)
IMPLIED_TIMES_HIGH_PRIORITY == OperatorInfo("IMPLIED_TIMES_HIGH_PRIORITY", INFIX, 851)
IMPLIED_SEPARATOR_HIGH_PRIORITY == OperatorInfo("IMPLIED_SEPARATOR_HIGH_PRIORITY", INFIX, 901)
IMPLIED_CHEMICAL_BOND == OperatorInfo("IMPLIED_CHEMICAL_BOND", INFIX, 905)
IMPLIED_PLUS_SLASH_HIGH_PRIORITY == OperatorInfo("IMPLIED_PLUS_SLASH_HIGH_PRIORITY", INFIX, 881)
DEFAULT_OPERATOR_INFO_PREFIX == OperatorInfo("DEFAULT_OPERATOR_INFO_PREFIX", PREFIX, 260)
DEFAULT_OPERATOR_INFO_INFIX == OperatorInfo("DEFAULT_OPERATOR_INFO_INFIX", INFIX, 260)
DEFAULT_OPERATOR_INFO_POSTFIX == OperatorInfo("DEFAULT_OPERATOR_INFO_POSTFIX", POSTFIX, 260)
ILLEGAL_OPERATOR_INFO == OperatorInfo("ILLEGAL_OPERATOR_INFO", INFIX, 999)

(* The operator dictionary OPERATORS (include!("operator-info.in")): token    *)
(* text -> the chain of its OperatorInfo, first entry first.  The entries     *)
(* are the ones the scan's tests use; invisible operators are written FA      *)
(* (U+2061), IT (U+2062), IC (U+2063), IP (U+2064), and "times" is the        *)
(* multiplication sign.                                                       *)
OPERATORS ==
    [t \in {"+", "-", "=", "<", "times", "/", ",", "!", "(", ")", "[", "]", "|",
            "FA", "IT", "IC", "IP"} |->
       CASE t = "+" -> << OperatorInfo("+", INFIX, 275), OperatorInfo("+pre", PREFIX, 720) >>
         [] t = "-" -> << OperatorInfo("-", INFIX, 275), OperatorInfo("-pre", PREFIX, 720) >>
         [] t = "=" -> << OperatorInfo("=", INFIX, 260) >>
         [] t = "<" -> << OperatorInfo("<", INFIX, 260) >>
         [] t = "times" -> << OperatorInfo("times", INFIX, 390) >>
         [] t = "/" -> << OperatorInfo("/", INFIX, 660) >>
         [] t = "," -> << OperatorInfo(",", INFIX, 40) >>
         [] t = "!" -> << OperatorInfo("!", POSTFIX, 810) >>
         [] t = "(" -> << OperatorInfo("(", LEFT_FENCE, 20) >>
         [] t = ")" -> << OperatorInfo(")", RIGHT_FENCE, 20) >>
         [] t = "[" -> << OperatorInfo("[", LEFT_FENCE, 20) >>
         [] t = "]" -> << OperatorInfo("]", RIGHT_FENCE, 20) >>
         [] t = "|" -> << OperatorInfo("|pre", LEFT_FENCE, 20),
                          OperatorInfo("|post", RIGHT_FENCE, 20),
                          OperatorInfo("|", INFIX, 100) >>
         [] t = "FA" -> << OperatorInfo("FA", INFIX, 850) >>
         [] t = "IT" -> << OperatorInfo("IT", INFIX, 390) >>
         [] t = "IC" -> << OperatorInfo("IC", INFIX, 40) >>
         [] t = "IP" -> << OperatorInfo("IP", INFIX, 880) >>]

AMBIGUOUS_OPERATORS == {"|"}

INVISIBLE_FUNCTION_APPLICATION == OPERATORS["FA"][1]
IMPLIED_TIMES == OPERATORS["IT"][1]
IMPLIED_INVISIBLE_COMMA == OPERATORS["IC"][1]
IMPLIED_INVISIBLE_PLUS == OPERATORS["IP"][1]
PLUS == OPERATORS["+"][1]
MINUS == OPERATORS["-"][1]
PREFIX_MINUS == OPERATORS["-"][2]
TIMES_SIGN == OPERATORS["times"][1]

is_plus_or_minus(op) == ptr_eq(op, PLUS) \/ ptr_eq(op, MINUS)
is_times(op) == ptr_eq(op, IMPLIED_TIMES) \/ ptr_eq(op, TIMES_SIGN)

\* an is_nary without the plus/minus and the times families
is_nary_same_operator(self, previous_op) == ptr_eq(previous_op, self)

\* OperatorInfo::is_nary: self.is_nary(previous_op)
is_nary(self, previous_op) ==
    \/ ptr_eq(previous_op, self)
    \/ (is_plus_or_minus(previous_op) /\ is_plus_or_minus(self))
    \/ (is_times(previous_op) /\ is_times(self))

\* struct OperatorPair and OperatorPair::new
OperatorPair(ch, op) == [ch |-> ch, op |-> op]
NoOperator == OperatorPair("illegal", ILLEGAL_OPERATOR_INFO)
IsOperand(op_pair) == ptr_eq(op_pair.op, ILLEGAL_OPERATOR_INFO)

-----------------------------------------------------------------------------
(* Nodes *)

Leaf(name, text, form, id) ==
    [name |-> name, text |-> text, form |-> form, id |-> id, added |-> FALSE,
     guess |-> FALSE, attrs |-> {}, chem |-> FALSE, children |-> <<>>]

\* create_mathml_element(doc, "mrow") with data-changed='added'
NewMrow(kids) ==
    [name |-> "mrow", text |-> "", form |-> "", id |-> 0, added |-> TRUE,
     guess |-> FALSE, attrs |-> {}, chem |-> FALSE, children |-> kids]

\* an mrow of the input (no data-changed attribute)
InputMrow(kids, attrs) ==
    [name |-> "mrow", text |-> "", form |-> "", id |-> 0, added |-> FALSE,
     guess |-> FALSE, attrs |-> attrs, chem |-> FALSE, children |-> kids]

\* a create_mo that never sets data-function-guess
create_mo_unmarked(ch, is_guess) ==
    [name |-> "mo", text |-> ch, form |-> "", id |-> 0, added |-> TRUE,
     guess |-> FALSE, attrs |-> {}, chem |-> FALSE, children |-> <<>>]

create_mo(ch, is_guess) ==
    [name |-> "mo", text |-> ch, form |-> "", id |-> 0, added |-> TRUE,
     guess |-> is_guess, attrs |-> {}, chem |-> FALSE, children |-> <<>>]

\* Option<T>
Some(v) == [some |-> TRUE, v |-> v]
None == [some |-> FALSE, v |-> <<>>]

NoNode == [name |-> "None"]
IsSome(n) == n.name # "None"

is_adorned_node(node) ==
    node.name \in {"msub", "msup", "msubsup", "munder", "mover", "munderover",
                   "mmultiscripts"}

RECURSIVE get_possible_embellished_node(_)
get_possible_embellished_node(node) ==
    IF is_adorned_node(node) /\ Len(node.children) > 0
    THEN get_possible_embellished_node(node.children[1])
    ELSE node

-----------------------------------------------------------------------------
(* The name sets of crate::definitions (FunctionNames, TrigFunctionNames,     *)
(* LikelyFunctionNames, GeometryShapes) and the xpath_functions helpers:      *)
(* collaborators outside canonicalize.rs, given by the names the tests use.   *)

FunctionNames == {"sin", "cos", "ker"}
TrigFunctionNames == {"sin", "cos"}
LikelyFunctionNames == {"f"}
GeometryShapes == {"triangle"}
UppercaseMultiCharNames == {"Tr", "Sin"}

to_ascii_lowercase(s) == IF s = "Sin" THEN "sin" ELSE s

\* xpath_functions::IsNode::is_simple
is_simple(node) == node.name \in {"mi", "mn"}

\* xpath_functions::IsBracketed::is_bracketed(node, left, right, false, false)
is_bracketed(node, left, right) ==
    /\ node.name = "mrow"
    /\ Len(node.children) >= 2
    /\ node.children[1].name = "mo" /\ node.children[1].text = left
    /\ node.children[Len(node.children)].name = "mo"
    /\ node.children[Len(node.children)].text = right

-----------------------------------------------------------------------------
(* is_function_name, canonicalize.rs 2556-2725.  The chemistry mark of a     *)
(* node (the attribute MAYBE_CHEMISTRY) is its field chem.                    *)

\* lines 2517-2540: True for a name without the mark; for a marked name in
\* front of an mrow, likely_chem_state of crate::chemistry is asked whether
\* the mrow is a state of matter such as (g).  No mrow of the model is one,
\* and for these it answers 0.
is_likely_chemical_state(node, right_sibling) == "True"

is_left_paren(node) == node.name = "mo" /\ node.text \in {"(", "["}

is_matching_right_paren(open, node) ==
    /\ node.name = "mo"
    /\ \/ (open = "(" /\ node.text = ")")
       \/ (open = "[" /\ node.text = "]")

is_single_arg(open, following_nodes) ==
    IF Len(following_nodes) = 0 THEN TRUE
    ELSE IF is_matching_right_paren(open, following_nodes[1]) THEN TRUE
    ELSE /\ Len(following_nodes) > 1
         /\ following_nodes[1].name # "mrow"
         /\ is_matching_right_paren(open, following_nodes[2])

RECURSIVE is_comma_arg(_, _)
is_comma_arg(open, following_nodes) ==
    IF Len(following_nodes) <= 1 THEN FALSE
    ELSE IF following_nodes[2].name = "mrow"
         THEN is_comma_arg(open, following_nodes[2].children)
    ELSE LET stops == {k \in 1..Len(following_nodes) :
                          /\ following_nodes[k].name = "mo"
                          /\ \/ following_nodes[k].text = ","
                             \/ is_matching_right_paren(open, following_nodes[k])}
         IN  /\ stops # {}
             /\ LET first == CHOOSE k \in stops : \A m \in stops : k <= m
                IN  following_nodes[first].text = ","

RECURSIVE is_function_name(_, _)
is_function_name(node, right_siblings) ==
    LET base_of_name == get_possible_embellished_node(node)
        base_name == base_of_name.text
    IN  IF base_of_name.name \notin {"mi", "mtext"} THEN "False"
        ELSE IF base_name = "" THEN "False"
        ELSE IF to_ascii_lowercase(base_name) \in FunctionNames THEN "True"
        ELSE IF base_name \in GeometryShapes THEN "True"
        ELSE IF ~right_siblings.some THEN "False"
        ELSE IF Len(right_siblings.v) = 0 THEN "False"
        ELSE LET rs == right_siblings.v
                 first_child == rs[1]
             IN  IF is_likely_chemical_state(node, first_child) # "True"
                 THEN is_likely_chemical_state(node, first_child)
                 ELSE IF /\ first_child.name = "mrow"
                         /\ Len(first_child.children) > 0
                         /\ is_left_paren(first_child.children[1])
                 THEN is_function_name(node, Some(first_child.children))
                 ELSE IF Len(rs) < 2 THEN "False"
                 ELSE IF ~is_left_paren(first_child) THEN "False"
                 ELSE IF base_name \in LikelyFunctionNames THEN "True"
                 ELSE IF is_single_arg(first_child.text, SubSeq(rs, 2, Len(rs))) THEN "True"
                 ELSE IF is_comma_arg(first_child.text, SubSeq(rs, 2, Len(rs))) THEN "True"
                 ELSE IF node.chem /\ rs[2].chem THEN "False"
                 ELSE IF base_name \in UppercaseMultiCharNames THEN "True"
                 ELSE "Maybe"

\* is_trig, canonicalize.rs 3021-3041
is_trig(node) ==
    LET base_of_name == get_possible_embellished_node(node)
    IN  /\ base_of_name.name \in {"mi", "mtext"}
        /\ base_of_name.text # ""
        /\ to_ascii_lowercase(base_of_name.text) \in TrigFunctionNames

-----------------------------------------------------------------------------
(* find_operator, canonicalize.rs 2314-2407 *)

NoOp == [key |-> "None", op_type |-> NONE, priority |-> 0]
IsSomeOp(op) == op.key # "None"

\* a compute_type_from_position that asks about the left neighbour first
compute_type_left_first(previous_operator, previous_node, next_node) ==
    IF IsSome(previous_node)
       /\ is_function_name(get_possible_embellished_node(previous_node), None) = "True"
    THEN PREFIX
    ELSE IF IsSome(next_node)
            /\ is_function_name(get_possible_embellished_node(next_node), None) = "True"
    THEN INFIX
    ELSE LET operand_on_left == ~IsSomeOp(previous_operator) \/ is_postfix(previous_operator)
             operand_on_right == /\ IsSome(next_node)
                                 /\ get_possible_embellished_node(next_node).name # "mo"
         IN  IF operand_on_left /\ operand_on_right THEN INFIX
             ELSE IF ~operand_on_left /\ operand_on_right THEN PREFIX
             ELSE IF operand_on_left /\ ~operand_on_right THEN POSTFIX
             ELSE INFIX

\* a compute_type_from_position that never answers prefix
compute_type_never_prefix(previous_operator, previous_node, next_node) ==
    IF IsSome(next_node) /\ get_possible_embellished_node(next_node).name # "mo"
    THEN INFIX
    ELSE IF ~IsSomeOp(previous_operator) \/ is_postfix(previous_operator) THEN POSTFIX
    ELSE INFIX

compute_type_from_position(previous_operator, previous_node, next_node) ==
    IF IsSome(next_node)
       /\ is_function_name(get_possible_embellished_node(next_node), None) = "True"
    THEN INFIX
    ELSE IF IsSome(previous_node)
            /\ is_function_name(get_possible_embellished_node(previous_node), None) = "True"
    THEN PREFIX
    ELSE LET operand_on_left == ~IsSomeOp(previous_operator) \/ is_postfix(previous_operator)
             operand_on_right == /\ IsSome(next_node)
                                 /\ get_possible_embellished_node(next_node).name # "mo"
         IN  IF operand_on_left /\ operand_on_right THEN INFIX
             ELSE IF ~operand_on_left /\ operand_on_right THEN PREFIX
             ELSE IF operand_on_left /\ ~operand_on_right THEN POSTFIX
             ELSE INFIX

\* op_info is the chain starting at the dictionary entry
find_operator_info(op_info, op_type, from_form_attr) ==
    IF is_operator_type(op_info[1], op_type) THEN op_info[1]
    ELSE IF Len(op_info) >= 2 /\ is_operator_type(op_info[2], op_type) THEN op_info[2]
    ELSE IF Len(op_info) >= 3 /\ is_operator_type(op_info[3], op_type) THEN op_info[3]
    ELSE IF from_form_attr THEN ILLEGAL_OPERATOR_INFO ELSE op_info[1]

\* an op_not_in_operator_dictionary that forgets the role
op_not_in_dictionary_infix(op_type) == DEFAULT_OPERATOR_INFO_INFIX

op_not_in_operator_dictionary(op_type) ==
    IF op_type = PREFIX THEN DEFAULT_OPERATOR_INFO_PREFIX
    ELSE IF op_type = POSTFIX THEN DEFAULT_OPERATOR_INFO_POSTFIX
    ELSE DEFAULT_OPERATOR_INFO_INFIX

\* the op_type find_operator works with: the form attribute, else the position
FormOpType(mo_node, previous_operator, previous_node, next_node) ==
    IF mo_node.form = ""
    THEN compute_type_from_position(previous_operator, previous_node, next_node)
    ELSE IF mo_node.form = "prefix" THEN PREFIX
    ELSE IF mo_node.form = "postfix" THEN POSTFIX
    ELSE INFIX

\* found_op_info of lines 2330-2334: the chain of a token marked as a chemical
\* bond is the one entry IMPLIED_CHEMICAL_BOND, whatever its text
FoundOpInfo(mo_node) ==
    IF CHEMICAL_BOND \in mo_node.attrs THEN Some(<<IMPLIED_CHEMICAL_BOND>>)
    ELSE IF mo_node.text \in DOMAIN OPERATORS THEN Some(OPERATORS[mo_node.text])
    ELSE None

find_operator(mo_node, previous_operator, previous_node, next_node) ==
    LET Matching(op_type, matching_op_info) ==
            IF ptr_eq(matching_op_info, ILLEGAL_OPERATOR_INFO)
            THEN op_not_in_operator_dictionary(op_type)
            ELSE matching_op_info
        Found(op_type, found_op_info) ==
            IF ~found_op_info.some
            THEN op_not_in_operator_dictionary(op_type)
            ELSE Matching(op_type,
                          find_operator_info(found_op_info.v, op_type, mo_node.form # ""))
    IN  Found(FormOpType(mo_node, previous_operator, previous_node, next_node),
              FoundOpInfo(mo_node))


\* pub fn is_fence, canonicalize.rs 313-316 (OperatorInfo::is_fence, 198-200)
is_fence(mo) ==
    BitAnd(find_operator(mo, NoOp, NoNode, NoNode).op_type, 13) # 0

-----------------------------------------------------------------------------
(* StackInfo, canonicalize.rs 224-304 *)

StackInfoNew ==
    [mrow |-> <<>>, op_pair |-> OperatorPair("E000", LEFT_FENCEPOST), is_operand |-> FALSE]

StackInfoWithOp(node, op_pair) ==
    [mrow |-> <<node>>, op_pair |-> op_pair, is_operand |-> FALSE]

top(stack) == stack[Len(stack)]

last_child_in_mrow(frame) ==
    IF Len(frame.mrow) = 0 THEN NoNode ELSE frame.mrow[Len(frame.mrow)]

\* the assertion of line 285
AddChildAsserts(frame, child_op) == ~(IsOperand(child_op) /\ frame.is_operand)

add_child_to_mrow(frame, child, child_op) ==
    IF IsOperand(child_op)
    THEN [frame EXCEPT !.mrow = Append(@, child), !.is_operand = TRUE]
    ELSE [frame EXCEPT !.mrow = Append(@, child), !.op_pair = child_op,
                       !.is_operand = FALSE]

\* the assertions of lines 295-296
RemoveLastAsserts(frame) ==
    Len(frame.mrow) > 0 /\ (frame.is_operand \/ Len(frame.mrow) = 1)

\* a remove_last_operand_from_mrow that leaves the operand in the frame
remove_last_operand_kept(frame) == frame

\* the frame remove_last_operand_from_mrow leaves (it returns last_child_in_mrow)
remove_last_operand_from_mrow(frame) ==
    [frame EXCEPT !.mrow = SubSeq(@, 1, Len(@) - 1), !.is_operand = FALSE]

\* potentially_lift_script, canonicalize.rs 1983-2013
potentially_lift_script(mrow) ==
    IF mrow.name # "mrow" THEN mrow
    ELSE LET n == Len(mrow.children)
             first_child == mrow.children[1]
             last_child == mrow.children[n]
         IN  IF /\ first_child.name = "mo" /\ is_fence(first_child)
                /\ last_child.name \in {"msub", "msup", "msubsup"}
                /\ last_child.children[1].name = "mo"
                /\ is_fence(last_child.children[1])
             THEN [last_child EXCEPT !.children[1] =
                      [mrow EXCEPT !.children[n] = last_child.children[1]]]
             ELSE mrow

-----------------------------------------------------------------------------
(* The stack machine.  A scan state st is [stack, panic]: panic names the     *)
(* assertion, unwrap or index that failed, "none" while none has; once it is  *)
(* set nothing further happens.                                               *)

Ok(st) == st.panic = "none"
Panic(st, why) == [st EXCEPT !.panic = why]

EmptyStack == "parse_stack is empty"
TwoOperands == "add_child_to_mrow: two operands in a row"
CloseFenceChildren == "Wrong number of children in mrow when handling a close fence"
RemoveOperand == "remove_last_operand_from_mrow: no operand"
FinalStack == "parse_stack is not empty after the final pop"

\* let mut top_of_stack = parse_stack.pop().unwrap();
\* top_of_stack.add_child_to_mrow(child, child_op); parse_stack.push(top_of_stack);
AddToTop(st, child, child_op) ==
    IF ~Ok(st) THEN st
    ELSE IF Len(st.stack) = 0 THEN Panic(st, EmptyStack)
    ELSE IF ~AddChildAsserts(top(st.stack), child_op) THEN Panic(st, TwoOperands)
    ELSE [st EXCEPT !.stack[Len(st.stack)] = add_child_to_mrow(@, child, child_op)]

\* a push that is lost
Push_lost(st, frame) == st

\* parse_stack.push(frame)
Push(st, frame) == IF ~Ok(st) THEN st ELSE [st EXCEPT !.stack = Append(@, frame)]

\* a reduce_stack_one_time that wraps a single child in a group as well
reduce_stack_one_time_wrapping(st) ==
    IF ~Ok(st) THEN st
    ELSE IF Len(st.stack) < 2 THEN Panic(st, EmptyStack)
    ELSE LET n == Len(st.stack)
             below == st.stack[n - 1]
         IN  IF ~AddChildAsserts(below, NoOperator) THEN Panic(st, TwoOperands)
             ELSE [st EXCEPT !.stack =
                      Append(SubSeq(st.stack, 1, n - 2),
                             add_child_to_mrow(below, NewMrow(st.stack[n].mrow), NoOperator))]

\* reduce_stack_one_time, canonicalize.rs 2951-2970
reduce_stack_one_time(st) ==
    IF ~Ok(st) THEN st
    ELSE IF Len(st.stack) < 2 THEN Panic(st, EmptyStack)
    ELSE LET n == Len(st.stack)
             top_of_stack == st.stack[n]
             mrow == IF Len(top_of_stack.mrow) = 1
                     THEN top_of_stack.mrow[1]
                     ELSE NewMrow(top_of_stack.mrow)
             below == st.stack[n - 1]
         IN  IF ~AddChildAsserts(below, NoOperator) THEN Panic(st, TwoOperands)
             ELSE [st EXCEPT !.stack = Append(SubSeq(st.stack, 1, n - 2),
                                              add_child_to_mrow(below, mrow, NoOperator))]

\* a reduce_stack that ignores the priorities and pops down to the bottom frame
RECURSIVE reduce_stack_to_bottom(_, _)
reduce_stack_to_bottom(st, current_priority) ==
    IF ~Ok(st) THEN st
    ELSE IF Len(st.stack) = 0 THEN Panic(st, EmptyStack)
    ELSE IF Len(st.stack) # 1
         THEN reduce_stack_to_bottom(reduce_stack_one_time(st), current_priority)
         ELSE st

\* a reduce_stack that also pops a frame of equal priority
RECURSIVE reduce_stack_on_equal(_, _)
reduce_stack_on_equal(st, current_priority) ==
    IF ~Ok(st) THEN st
    ELSE IF Len(st.stack) = 0 THEN Panic(st, EmptyStack)
    ELSE IF current_priority <= top(st.stack).op_pair.op.priority /\ Len(st.stack) # 1
         THEN reduce_stack_on_equal(reduce_stack_one_time(st), current_priority)
         ELSE st

\* reduce_stack, canonicalize.rs 2940-2949
RECURSIVE reduce_stack(_, _)
reduce_stack(st, current_priority) ==
    IF ~Ok(st) THEN st
    ELSE IF Len(st.stack) = 0 THEN Panic(st, EmptyStack)
    ELSE IF current_priority < top(st.stack).op_pair.op.priority /\ Len(st.stack) # 1
         THEN reduce_stack(reduce_stack_one_time(st), current_priority)
         ELSE st

\* shift_stack, canonicalize.rs 2875-2937: [st, child, op] with the new current
\* child and operator
shift_stack(st, current_child, current_op) ==
    IF ~Ok(st) THEN [st |-> st, child |-> current_child, op |-> current_op]
    ELSE IF Len(st.stack) = 0
    THEN [st |-> Panic(st, EmptyStack), child |-> current_child, op |-> current_op]
    ELSE
    LET n == Len(st.stack)
        top_of_stack == st.stack[n]
        previous_op == top_of_stack.op_pair
        rest == SubSeq(st.stack, 1, n - 1)
    IN  IF is_nary(previous_op.op, current_op.op)
        THEN [st |-> st, child |-> current_child, op |-> current_op]
        ELSE IF \/ Len(top_of_stack.mrow) = 0
                \/ (~top_of_stack.is_operand /\ ~is_right_fence(current_op.op))
        THEN [st |-> [st EXCEPT !.stack = Append(st.stack, StackInfoNew)],
              child |-> current_child, op |-> current_op]
        ELSE IF is_right_fence(current_op.op)
        THEN LET kids == Append(top_of_stack.mrow, current_child)
                 mrow == NewMrow(kids)
             IN  IF /\ Len(kids) = 2
                    /\ \/ kids[1].name # "mo"
                       \/ ~is_left_fence(find_operator(kids[1], NoOp, kids[1], mrow))
                 THEN [st |-> [st EXCEPT !.stack = Append(rest, StackInfoNew)],
                       child |-> mrow, op |-> NoOperator]
                 ELSE IF Len(kids) <= 3
                 THEN [st |-> [st EXCEPT !.stack = rest],
                       child |-> potentially_lift_script(mrow), op |-> NoOperator]
                 ELSE [st |-> Panic(st, CloseFenceChildren),
                       child |-> current_child, op |-> current_op]
        ELSE IF ~RemoveLastAsserts(top_of_stack)
        THEN [st |-> Panic(st, RemoveOperand), child |-> current_child, op |-> current_op]
        ELSE IF is_postfix(current_op.op)
        THEN [st |-> [st EXCEPT !.stack =
                         Append(rest, remove_last_operand_from_mrow(top_of_stack))],
              child |-> NewMrow(<<last_child_in_mrow(top_of_stack), current_child>>),
              op |-> NoOperator]
        ELSE [st |-> [st EXCEPT !.stack =
                         Append(Append(rest, remove_last_operand_from_mrow(top_of_stack)),
                                StackInfoWithOp(last_child_in_mrow(top_of_stack), current_op))],
              child |-> current_child, op |-> current_op]


-----------------------------------------------------------------------------
(* Vertical bars, canonicalize.rs 2409-2512 *)

n_vertical_bars_on_right(remaining_children, vert_bar_ch) ==
    Cardinality({k \in 1..Len(remaining_children) :
                    /\ remaining_children[k].name = "mo"
                    /\ remaining_children[k].text = vert_bar_ch})

OpClass(op) ==
    IF is_prefix(op) THEN "prefix"
    ELSE IF is_infix(op) THEN "infix"
    ELSE IF is_postfix(op) THEN "postfix"
    ELSE "none"

\* OperatorVersions::new, canonicalize.rs 150-174: the last entry of the chain
\* of each class, NoOp when there is none
OperatorVersion(chain, class) ==
    LET ks == {k \in 1..Len(chain) : OpClass(chain[k]) = class}
    IN  IF ks = {} THEN NoOp
        ELSE chain[CHOOSE k \in ks : \A m \in ks : m <= k]

\* a determine_vertical_bar_op that keeps what find_operator found
determine_vertical_bar_op_kept(original_op, mo_node, next_child, stack, n_bars_on_right, following) == original_op

\* following: the siblings after next_child
determine_vertical_bar_op(original_op, mo_node, next_child, stack, n_bars_on_right, following) ==
    LET tos == top(stack)
        next_base == get_possible_embellished_node(next_child)
        next_next_child == IF Len(following) = 0 THEN NoNode ELSE following[1]
        \* lines 2494-2503: the operator after a following operator
        IsOperatorAfter(next_child_op) ==
            /\ IsSomeOp(next_child_op)
            /\ ~is_left_fence(next_child_op)
            /\ ~is_prefix(next_child_op)
        Versions(op, prefix, infix, postfix) ==
            LET has_left_match ==
                    IF IsSomeOp(prefix)
                    THEN IF ptr_eq(tos.op_pair.op, prefix) THEN TRUE
                         ELSE IF Len(stack) > 2
                              THEN ptr_eq(stack[Len(stack) - 1].op_pair.op, prefix)
                              ELSE FALSE
                    ELSE FALSE
            IN  IF IsSomeOp(prefix) /\ (~IsSome(last_child_in_mrow(tos)) \/ ~tos.is_operand)
                THEN prefix
                ELSE IF IsSomeOp(postfix) /\ (~IsSome(next_child) \/ has_left_match)
                THEN postfix
                ELSE IF ~IsSome(next_child)
                THEN (IF IsSomeOp(infix) THEN infix ELSE op)
                ELSE IF IsSomeOp(prefix) /\ n_bars_on_right % 2 = 1
                THEN prefix
                ELSE IF IsOperatorAfter(
                           IF next_base.name # "mo" THEN NoOp
                           ELSE find_operator(next_base, infix, last_child_in_mrow(tos),
                                              next_next_child))
                THEN (IF IsSomeOp(postfix) THEN postfix ELSE op)
                ELSE IF IsSomeOp(infix) THEN infix
                ELSE op
        Chain(chain) ==
            Versions(chain[1], OperatorVersion(chain, "prefix"),
                     OperatorVersion(chain, "infix"), OperatorVersion(chain, "postfix"))
    IN  IF mo_node.text \notin DOMAIN OPERATORS THEN original_op
        ELSE IF mo_node.text \notin AMBIGUOUS_OPERATORS THEN original_op
        ELSE Chain(OPERATORS[mo_node.text])

-----------------------------------------------------------------------------
(* The implied-operator tests, canonicalize.rs 2727-2871 and 2972-3019 *)

DECIMAL_SEPARATOR == "."
DecimalTexts == {"2.5"}          \* the number texts that contain DECIMAL_SEPARATOR
SingleCapitals == {"A", "B"}     \* the single ASCII uppercase letter texts

\* canonicalize_mrows(mathml, mrow_ctx): [node, panic], defined with the scan below
RECURSIVE canonicalize_mrows(_, _)

IsLeafName(n) == n \in {"mi", "ms", "mtext", "mspace", "mo", "mn"}

\* What canonicalize_mrows leaves of the element it was given.  A leaf is
\* changed in place and an mfrac, msub, ... gets its new children, so both are
\* the returned element; the scan of an mrow moves its children into new mrows
\* and returns one of those, so the mrow it was given keeps only what was not
\* moved: the mrows among its children, themselves emptied.
RECURSIVE LeftBehind(_), LeftBehindSeq(_)
LeftBehind(node) ==
    IF node.name = "mrow"
    THEN [node EXCEPT !.children = LeftBehindSeq(node.children)]
    ELSE canonicalize_mrows(node, "other").node

LeftBehindSeq(kids) ==
    IF Len(kids) = 0 THEN <<>>
    ELSE IF kids[1].name = "mrow"
    THEN <<LeftBehind(kids[1])>> \o LeftBehindSeq(Tail(kids))
    ELSE LeftBehindSeq(Tail(kids))

is_int(integer_part) == integer_part.name = "mn" /\ integer_part.text \notin DecimalTexts

is_integer_part_ok(integer_part) ==
    IF integer_part.name = "mrow"
    THEN /\ Len(integer_part.children) = 2
         /\ integer_part.children[1].name = "mo"
         /\ integer_part.children[1].text = "-"
         /\ is_int(integer_part.children[2])
    ELSE is_int(integer_part)

is_mfrac_ok(fraction_part) ==
    /\ Len(fraction_part.children) = 2
    /\ is_int(fraction_part.children[1])
    /\ is_int(fraction_part.children[2])

\* [res, kids, panic]: kids is fraction_children as the calls of
\* canonicalize_mrows on the slash and the denominator leave them
RECURSIVE is_linear_fraction(_)
is_linear_fraction(fraction_children) ==
    LET first_child == fraction_children[1]
        No(kids) == [res |-> FALSE, kids |-> kids, panic |-> "none"]
        Inner(r) == [r EXCEPT !.kids = [fraction_children EXCEPT ![1].children = r.kids]]
        Denominator(kids2, denom) ==
            [res |-> denom.panic = "none" /\ is_int(denom.node),
             kids |-> [kids2 EXCEPT ![3] = LeftBehind(@)],
             panic |-> denom.panic]
        Slash(slash_part, kids2) ==
            IF slash_part.panic # "none"
            THEN [res |-> FALSE, kids |-> fraction_children, panic |-> slash_part.panic]
            ELSE IF slash_part.node.name = "mo" /\ slash_part.node.text = "/"
            THEN Denominator(kids2, canonicalize_mrows(fraction_children[3], "other"))
            ELSE No(kids2)
    IN  IF first_child.name = "mrow"
        THEN IF Len(first_child.children) # 3 THEN No(fraction_children)
             ELSE Inner(is_linear_fraction(first_child.children))
        ELSE IF ~is_int(first_child) THEN No(fraction_children)
        ELSE Slash(canonicalize_mrows(fraction_children[2], "other"),
                   [fraction_children EXCEPT ![2] = LeftBehind(@)])

is_mixed_fraction(integer_part, fraction_children) ==
    LET No == [res |-> FALSE, kids |-> fraction_children, panic |-> "none"]
    IN  IF Len(fraction_children) = 0 THEN No
        ELSE LET right_child == fraction_children[1]
             IN  IF ~ \/ right_child.name = "mfrac"
                      \/ (right_child.name = "mrow" /\ Len(right_child.children) = 3)
                      \/ (right_child.name = "mn" /\ Len(fraction_children) >= 3)
                 THEN No
                 ELSE IF ~is_integer_part_ok(integer_part) THEN No
                 ELSE IF right_child.name = "mfrac"
                 THEN [No EXCEPT !.res = is_mfrac_ok(right_child)]
                 ELSE is_linear_fraction(fraction_children)

\* an is_implied_comma that never finds one
is_implied_comma_never(prev, current, mrow_ctx) == FALSE

\* mrow_ctx: "script" when the scanned mrow is a non-base child of msub, msup
\* or msubsup
is_implied_comma(prev, current, mrow_ctx) ==
    IF prev.name # "mn" \/ current.name # "mn" THEN FALSE
    ELSE mrow_ctx = "script"

is_valid_chemistry(child) ==
    LET c == get_possible_embellished_node(child)
    IN  c.chem \/ (c.name # "mi" /\ c.name # "mtext")

\* preceding: the siblings before prev (it sits in the top frame's mrow);
\* following: the siblings after current
is_implied_chemical_bond(prev, current, preceding, following) ==
    IF ~prev.chem \/ ~current.chem THEN FALSE
    ELSE /\ \A k \in 1..Len(preceding) : is_valid_chemistry(preceding[k])
         /\ \A k \in 1..Len(following) : is_valid_chemistry(following[k])

is_implied_separator(prev, current) ==
    IF prev.name # "mi" \/ current.name # "mi" THEN FALSE
    ELSE prev.text \in SingleCapitals /\ current.text \in SingleCapitals

\* an is_trig_arg without the special case
is_trig_arg_never(previous_child, current_child, st) == [st |-> st, res |-> FALSE]

\* is_trig_arg: [st, res]
is_trig_arg(previous_child, current_child, st) ==
    IF ~is_simple(current_child) THEN [st |-> st, res |-> FALSE]
    ELSE IF \/ is_bracketed(previous_child, "(", ")")
            \/ is_bracketed(previous_child, "[", "]")
    THEN [st |-> st, res |-> FALSE]
    ELSE IF is_function_name(current_child, None) = "True" THEN [st |-> st, res |-> FALSE]
    ELSE
    LET op_on_top == top(st.stack).op_pair
    IN  IF ptr_eq(op_on_top.op, INVISIBLE_FUNCTION_APPLICATION)
        THEN [st |-> st, res |-> is_trig(top(st.stack).mrow[1])]
        ELSE IF ptr_eq(op_on_top.op, PREFIX_MINUS)
        THEN IF Len(st.stack) < 2 THEN [st |-> st, res |-> FALSE]
             ELSE LET next_stack_info == st.stack[Len(st.stack) - 1]
                  IN  IF ~ptr_eq(next_stack_info.op_pair.op, INVISIBLE_FUNCTION_APPLICATION)
                      THEN [st |-> st, res |-> FALSE]
                      ELSE IF is_trig(next_stack_info.mrow[1])
                      THEN [st |-> reduce_stack_one_time(st), res |-> TRUE]
                      ELSE [st |-> st, res |-> FALSE]
        ELSE [st |-> st, res |-> ptr_eq(op_on_top.op, IMPLIED_TIMES_HIGH_PRIORITY)]


-----------------------------------------------------------------------------
(* Leaves and attributes *)

MINUS_SIGN == "U+2212"

\* canonicalize_mo_text: the row of the table for U+2212; the other rows
\* concern diacritics
canonicalize_mo_text(mo) == IF mo.text = MINUS_SIGN THEN [mo EXCEPT !.text = "-"] ELSE mo

\* canonicalize_plane1 returns a leaf without a mathvariant attribute as it is
canonicalize_plane1(mi) == mi

GLOBAL_ATTRS ==
    {"class", "dir", "displaystyle", "id", "mathbackground", "mathcolor", "mathsize",
     "mathvariant", "nonce", "scriptlevel", "style", "tabindex", "intent", "arg"}

\* the attribute names that start with "data-" or with "on"
PrefixedAttrs == {"data-latex", "onclick", CHEMICAL_BOND}

\* add_attrs(mathml, attrs), with attrs the attributes of `saved`; data-changed
\* (added), data-function-guess (guess) and the chemistry mark are "data-"
\* attributes, form is not a global one
add_attrs(mathml, saved) ==
    [mathml EXCEPT
        !.attrs = {a \in @ : a \in GLOBAL_ATTRS \cup PrefixedAttrs} \cup saved.attrs,
        !.form = saved.form,
        !.added = @ \/ saved.added,
        !.guess = @ \/ saved.guess,
        !.chem = @ \/ saved.chem]

-----------------------------------------------------------------------------
(* canonicalize_mrows_in_mrow, canonicalize.rs 3066-3213.  The state of a     *)
(* scan is s = [stack, panic, children, find]: the parse stack, the failed    *)
(* assertion if any, the local vector `children`, and the arguments and       *)
(* result of the last find_operator call of line 3091.                        *)

NoFind == [called |-> FALSE]
ShiftAssert == "shift_stack did not return the implied operator"

StOf(s) == [stack |-> s.stack, panic |-> s.panic]
WithSt(s, st) == [s EXCEPT !.stack = st.stack, !.panic = st.panic]

\* lines 3162-3172 and 3133-3144: shift the implied operator and add it
ShiftImplied(st, ch, op, is_guess) ==
    LET implied_operator == OperatorPair(ch, op)
        implied_mo == create_mo(ch, is_guess)
        Shifted(shift_result) ==
            IF ~Ok(shift_result.st) THEN shift_result.st
            ELSE IF \/ shift_result.child # implied_mo
                    \/ ~ptr_eq(implied_operator.op, shift_result.op.op)
            THEN Panic(shift_result.st, ShiftAssert)
            ELSE AddToTop(shift_result.st, implied_mo, implied_operator)
    IN  Shifted(shift_stack(st, implied_mo, implied_operator))

\* lines 3087-3103: the operator of an mo
OperatorOfMo(s, i) ==
    LET n == Len(s.children)
        base_of_child == get_possible_embellished_node(s.children[i])
        tos == top(s.stack)
        previous_op == IF tos.is_operand THEN NoOp ELSE tos.op_pair.op
        next_node == IF i + 1 <= n THEN s.children[i + 1] ELSE NoNode
        Found(found) ==
            [s |-> [s EXCEPT !.find = [called |-> TRUE, mo |-> base_of_child,
                                       previous_operator |-> previous_op,
                                       previous_node |-> last_child_in_mrow(tos),
                                       next_node |-> next_node, result |-> found]],
             op |-> OperatorPair(base_of_child.text,
                       determine_vertical_bar_op(found, base_of_child, next_node, s.stack,
                           n_vertical_bars_on_right(SubSeq(s.children, i + 1, n),
                                                    base_of_child.text),
                           SubSeq(s.children, i + 2, n)))]
    IN  Found(find_operator(base_of_child, previous_op, last_child_in_mrow(tos), next_node))

\* lines 3109-3146: the implied operator between previous_child and child i,
\* given the answers of is_function_name and is_mixed_fraction
ChooseImplied(s, i, mrow_ctx, previous_child, likely_function_name, mixed) ==
    LET n == Len(s.children)
        kids == SubSeq(s.children, 1, i - 1) \o mixed.kids
        current_child == kids[i]
        base_of_child == get_possible_embellished_node(current_child)
        s1 == [s EXCEPT !.children = kids, !.panic = mixed.panic]
        \* lines 3128-3146: reduce, then shift the implied operator
        Shift(choice) ==
            IF choice.s.panic # "none" THEN [s |-> choice.s, op |-> NoOperator]
            ELSE IF base_of_child.name = "mo"
            THEN [s |-> choice.s, op |-> OperatorPair(base_of_child.text, choice.op)]
            ELSE [s |-> WithSt(choice.s,
                           ShiftImplied(reduce_stack(StOf(choice.s), choice.op.priority),
                                        choice.ch, choice.op,
                                        likely_function_name = "Maybe")),
                  op |-> NoOperator]
        Times(trig) ==
            IF trig.res
            THEN [ch |-> "IT", op |-> IMPLIED_TIMES_HIGH_PRIORITY, s |-> WithSt(s1, trig.st)]
            ELSE [ch |-> "IT", op |-> IMPLIED_TIMES, s |-> WithSt(s1, trig.st)]
    IN  Shift(IF likely_function_name = "True"
              THEN [ch |-> "FA", op |-> INVISIBLE_FUNCTION_APPLICATION, s |-> s]
              ELSE IF mixed.res
              THEN [ch |-> "IP", op |-> IMPLIED_INVISIBLE_PLUS, s |-> s1]
              ELSE IF is_implied_comma(previous_child, current_child, mrow_ctx)
              THEN [ch |-> "IC", op |-> IMPLIED_INVISIBLE_COMMA, s |-> s1]
              ELSE IF is_implied_chemical_bond(previous_child, current_child,
                         SubSeq(top(s.stack).mrow, 1, Len(top(s.stack).mrow) - 1),
                         SubSeq(kids, i + 1, n))
              THEN [ch |-> "IC", op |-> IMPLIED_CHEMICAL_BOND, s |-> s1]
              ELSE IF is_implied_separator(previous_child, current_child)
              THEN [ch |-> "IC", op |-> IMPLIED_SEPARATOR_HIGH_PRIORITY, s |-> s1]
              ELSE Times(is_trig_arg(get_possible_embellished_node(previous_child),
                                     base_of_child, StOf(s))))

\* lines 3105-3146: two operands in a row
ImpliedOperator(s, i, mrow_ctx) ==
    LET n == Len(s.children)
        previous_child == last_child_in_mrow(top(s.stack))
    IN  IF get_possible_embellished_node(previous_child).name = "mo"
        THEN [s |-> s, op |-> NoOperator]
        ELSE ChooseImplied(s, i, mrow_ctx, previous_child,
                 is_function_name(previous_child, Some(SubSeq(s.children, i, n))),
                 is_mixed_fraction(previous_child, SubSeq(s.children, i, n)))


\* lines 3149-3190: [st, child, op], the stack, the child and the operator that
\* line 3192 adds
HandleOperator(s, i, current_child, current_op) ==
    LET st == StOf(s)
        n == Len(s.children)
        Same(x) == [st |-> x, child |-> current_child, op |-> current_op]
        \* lines 3158-3172: function application or times before a left fence
        Implied(likely_function_name) ==
            IF likely_function_name = "True"
            THEN [ch |-> "FA", op |-> INVISIBLE_FUNCTION_APPLICATION]
            ELSE [ch |-> "IT", op |-> IMPLIED_TIMES]
        ShiftFor(likely_function_name) ==
            ShiftImplied(st, Implied(likely_function_name).ch, Implied(likely_function_name).op,
                         likely_function_name = "Maybe")
        Reduce(op) == shift_stack(reduce_stack(st, op.op.priority), current_child, op)
    IN  IF ~Ok(st) \/ IsOperand(current_op) THEN Same(st)
        ELSE IF is_left_fence(current_op.op) \/ is_prefix(current_op.op)
        THEN Same(Push(IF top(st.stack).is_operand
                       THEN ShiftFor(is_function_name(s.children[i - 1],
                                                      Some(SubSeq(s.children, i, n))))
                       ELSE st,
                       StackInfoNew))
        ELSE Reduce(IF current_op.ch = "/" /\ top(st.stack).op_pair.ch = "IP"
                    THEN OperatorPair(current_op.ch, IMPLIED_PLUS_SLASH_HIGH_PRIORITY)
                    ELSE current_op)

\* lines 3081-3147: child i, canonicalized as cur, and its operator
ClassifyChild(s, i, mrow_ctx, cur) ==
    IF cur.panic # "none" THEN [s |-> [s EXCEPT !.panic = cur.panic], op |-> NoOperator]
    ELSE IF Len(s.stack) = 0 THEN [s |-> [s EXCEPT !.panic = EmptyStack], op |-> NoOperator]
    ELSE
    LET s0 == [s EXCEPT !.children[i] = cur.node]
        base_of_child == get_possible_embellished_node(cur.node)
    IN  IF base_of_child.name = "mo" /\ base_of_child.text \notin {"", " "}
        THEN OperatorOfMo(s0, i)
        ELSE IF IsSome(last_child_in_mrow(top(s0.stack)))
        THEN ImpliedOperator(s0, i, mrow_ctx)
        ELSE [s |-> s0, op |-> NoOperator]

\* lines 3149-3193: shift or reduce on the operator, then add the child
ShiftChild(classified, i) ==
    LET s1 == classified.s
        Add(handled) == WithSt(s1, AddToTop(handled.st, handled.child, handled.op))
    IN  Add(HandleOperator(s1, i, s1.children[i], classified.op))

\* one iteration of the loop of line 3077, for child i
ProcessChild(s, i, mrow_ctx) ==
    ShiftChild(ClassifyChild(s, i, mrow_ctx, canonicalize_mrows(s.children[i], "other")), i)

RECURSIVE ScanFrom(_, _, _)
ScanFrom(s, i, mrow_ctx) ==
    IF s.panic # "none" \/ i > Len(s.children) THEN s
    ELSE ScanFrom(ProcessChild(s, i, mrow_ctx), i + 1, mrow_ctx)

\* lines 3201-3212, on the stack that the reduce_stack of line 3197 left
FinalPop(st, mrow) ==
    IF ~Ok(st) THEN [node |-> mrow, panic |-> st.panic]
    ELSE IF Len(st.stack) = 0 THEN [node |-> mrow, panic |-> EmptyStack]
    ELSE IF Len(st.stack) # 1 THEN [node |-> mrow, panic |-> FinalStack]
    ELSE LET top_of_stack == st.stack[1]
             parsed_mrow == IF Len(top_of_stack.mrow) = 1
                            THEN top_of_stack.mrow[1]
                            ELSE NewMrow(top_of_stack.mrow)
         IN  [node |-> add_attrs([parsed_mrow EXCEPT !.added = FALSE], mrow),
              panic |-> "none"]

StartScan(mrow) ==
    [stack |-> <<StackInfoNew>>, panic |-> "none", children |-> mrow.children,
     find |-> NoFind]

canonicalize_mrows_in_mrow(mrow, mrow_ctx) ==
    FinalPop(reduce_stack(StOf(ScanFrom(StartScan(mrow), 1, mrow_ctx)),
                          LEFT_FENCEPOST.priority), mrow)

\* the position test of is_implied_comma for the k-th child of `parent`
ChildCtx(parent, k) ==
    IF parent.name \in {"msub", "msubsup", "msup"} /\ k > 1 THEN "script" ELSE "other"

PresentationAssert == "get_presentation_element: no single presentation child"

\* get_presentation_element, canonicalize.rs 356-375: [i, el, panic], the index
\* of the child to replace and the presentation element
get_presentation_element(element) ==
    LET marked == {k \in 1..Len(element.children) :
                      "encoding=MathML-Presentation" \in element.children[k].attrs}
    IN  IF marked # {}
        THEN LET i == CHOOSE k \in marked : \A m \in marked : k <= m
                 presentation_annotation == element.children[i]
             IN  IF Len(presentation_annotation.children) # 1
                 THEN [i |-> i, el |-> NoNode, panic |-> PresentationAssert]
                 ELSE [i |-> i, el |-> presentation_annotation.children[1],
                       panic |-> "none"]
        ELSE IF Len(element.children) = 0
        THEN [i |-> 1, el |-> NoNode, panic |-> PresentationAssert]
        ELSE [i |-> 1, el |-> element.children[1], panic |-> "none"]

\* a canonicalize_mrows that runs the scan over the children of every element
canonicalize_mrows_scanning_all(mathml, mrow_ctx) ==
    IF IsLeafName(mathml.name) THEN [node |-> mathml, panic |-> "none"]
    ELSE canonicalize_mrows_in_mrow(mathml, mrow_ctx)

canonicalize_mrows(mathml, mrow_ctx) ==
    LET Presentation(p, r) ==
            IF p.panic # "none" THEN [node |-> mathml, panic |-> p.panic]
            ELSE IF r.panic # "none" THEN [node |-> mathml, panic |-> r.panic]
            ELSE [node |-> [mathml EXCEPT !.children[p.i] = r.node], panic |-> "none"]
        Children(new) ==
            LET bad == {k \in 1..Len(mathml.children) : new[k].panic # "none"}
            IN  IF bad # {}
                THEN [node |-> mathml,
                      panic |-> new[CHOOSE k \in bad : \A m \in bad : k <= m].panic]
                ELSE [node |-> [mathml EXCEPT !.children =
                                   [k \in 1..Len(mathml.children) |-> new[k].node]],
                      panic |-> "none"]
    IN  IF mathml.name \in {"mi", "ms", "mtext", "mspace", "mn"}
        THEN [node |-> canonicalize_plane1(mathml), panic |-> "none"]
        ELSE IF mathml.name = "mo"
        THEN [node |-> canonicalize_mo_text(canonicalize_plane1(mathml)), panic |-> "none"]
        ELSE IF mathml.name = "mrow" THEN canonicalize_mrows_in_mrow(mathml, mrow_ctx)
        ELSE IF mathml.name = "semantics"
        THEN Presentation(get_presentation_element(mathml),
                          canonicalize_mrows(get_presentation_element(mathml).el, "other"))
        ELSE Children([k \in 1..Len(mathml.children) |->
                          canonicalize_mrows(mathml.children[k], ChildCtx(mathml, k))])


-----------------------------------------------------------------------------
(* The scan as a state machine: one step per iteration of the loop of line    *)
(* 3077, then the reduce of line 3197, then lines 3201-3212, then a second    *)
(* canonicalize_mrows on the returned tree (canonicalize, line 465).          *)

ScanState == [stack |-> parse_stack, panic |-> "none", children |-> children,
              find |-> NoFind]

NextChild ==
    /\ pc = "scan"
    /\ i_child <= Len(children)
    /\ LET Step(s) ==
               /\ parse_stack' = s.stack
               /\ children' = s.children
               /\ panic' = s.panic
               /\ lastFind' = s.find
               /\ pc' = IF s.panic = "none" THEN "scan" ELSE "panic"
       IN  Step(ProcessChild(ScanState, i_child, ctx))
    /\ i_child' = i_child + 1
    /\ UNCHANGED <<result, second, input_mrow, ctx, canonVars>>

EndOfInput ==
    /\ pc = "scan"
    /\ i_child > Len(children)
    /\ LET Reduced(st) ==
               /\ parse_stack' = st.stack
               /\ panic' = st.panic
               /\ pc' = IF Ok(st) THEN "reduced" ELSE "panic"
       IN  Reduced(reduce_stack(StOf(ScanState), LEFT_FENCEPOST.priority))
    /\ UNCHANGED <<children, i_child, result, second, lastFind, input_mrow, ctx, canonVars>>

Finish ==
    /\ pc = "reduced"
    /\ LET Popped(r) ==
               /\ panic' = r.panic
               /\ pc' = IF r.panic = "none" THEN "done" ELSE "panic"
               /\ result' = IF r.panic = "none" THEN r.node ELSE result
               /\ parse_stack' = IF Len(parse_stack) = 0 THEN parse_stack
                                 ELSE SubSeq(parse_stack, 1, Len(parse_stack) - 1)
       IN  Popped(FinalPop(StOf(ScanState), input_mrow))
    /\ UNCHANGED <<children, i_child, second, lastFind, input_mrow, ctx, canonVars>>

Recanonicalize ==
    /\ pc = "done"
    /\ LET Again(r) ==
               /\ panic' = r.panic
               /\ pc' = IF r.panic = "none" THEN "again" ELSE "panic"
               /\ second' = IF r.panic = "none" THEN r.node ELSE second
       IN  Again(canonicalize_mrows(result, ctx))
    /\ UNCHANGED <<children, i_child, parse_stack, result, lastFind, input_mrow, ctx, canonVars>>

Next == NextChild \/ EndOfInput \/ Finish \/ Recanonicalize

\* the sibling sequences of at most MaxLen tokens of A; the k-th sibling gets id k
SiblingSeqs(A, maxlen) ==
    UNION {[1..n -> A] : n \in 0..maxlen}

WithIds(kids) == [k \in 1..Len(kids) |-> [kids[k] EXCEPT !.id = k]]

mi(text) == Leaf("mi", text, "", 0)
mn(text) == Leaf("mn", text, "", 0)
mo(text) == Leaf("mo", text, "", 0)

InitScan(A, maxlen, Attrs, Ctxs) ==
    /\ \E kids \in SiblingSeqs(A, maxlen) : \E attrs \in Attrs :
          /\ children = WithIds(kids)
          /\ input_mrow = InputMrow(WithIds(kids), attrs)
    /\ ctx \in Ctxs
    /\ i_child = 1
    /\ parse_stack = <<StackInfoNew>>
    /\ pc = "scan"
    /\ panic = "none"
    /\ result = NoNode
    /\ second = NoNode
    /\ lastFind = NoFind
    /\ doc = NoNode
    /\ cpc = "idle"
    /\ ranClean = FALSE
    /\ ranGroup = FALSE

\* an operand, a relation, an addition and a multiplication
ArithTokens == {mi("x"), mo("="), mo("+"), mo("times")}

Init == InitScan(ArithTokens, MaxArith, {{}}, {"other"})

Spec == Init /\ [][Next]_vars


-----------------------------------------------------------------------------
(* Reading the returned tree *)

RECURSIVE ContainsId(_, _)
ContainsId(node, id) ==
    IF Len(node.children) = 0 THEN node.id = id /\ id # 0
    ELSE \E k \in 1..Len(node.children) : ContainsId(node.children[k], id)

\* the child indices that lead from node down to the input leaf id
RECURSIVE PathTo(_, _)
PathTo(node, id) ==
    IF Len(node.children) = 0 THEN <<>>
    ELSE LET k == CHOOSE j \in 1..Len(node.children) : ContainsId(node.children[j], id)
         IN  <<k>> \o PathTo(node.children[k], id)

\* the path of the group that has the input leaf id as a child, and the index
\* of the leaf in that group
GroupOf(node, id) == SubSeq(PathTo(node, id), 1, Len(PathTo(node, id)) - 1)
IndexInGroup(node, id) == PathTo(node, id)[Len(PathTo(node, id))]

IsPrefixOf(p, q) == Len(p) <= Len(q) /\ SubSeq(q, 1, Len(p)) = p

RECURSIVE Subtrees(_)
Subtrees(node) ==
    {node} \cup UNION {Subtrees(node.children[k]) : k \in 1..Len(node.children)}

IsOperandToken(node) == get_possible_embellished_node(node).name # "mo"
IsMo(node, texts) == node.name = "mo" /\ node.text \in texts /\ node.form = ""

\* the dictionary priority of an infix token
InfixPriority(text) == OperatorVersion(OPERATORS[text], "infix").priority

-----------------------------------------------------------------------------
(* Priority nesting *)

InfixTexts == {"=", "+", "-", "times", "/", ","}

\* an operand, the infix operator A at k, an operand, the infix operator B
\* with priority(A) < priority(B), in a sequence without fences
Tightens(k) ==
    /\ k >= 2 /\ k + 2 <= Len(children)
    /\ \A j \in 1..Len(children) :
          IsOperandToken(children[j]) \/ IsMo(children[j], InfixTexts)
    /\ IsOperandToken(children[k - 1])
    /\ IsMo(children[k], InfixTexts)
    /\ IsOperandToken(children[k + 1])
    /\ IsMo(children[k + 2], InfixTexts)
    /\ InfixPriority(children[k].text) < InfixPriority(children[k + 2].text)

\* the path of the child of A's group that follows A: A's right operand
RightOperandOf(k) == Append(GroupOf(result, k), IndexInGroup(result, k) + 1)

\* C1 as stated: B's group is A's right operand, B's group does not contain A's
C1_PriorityNesting_AsStated ==
    pc = "done" =>
        \A k \in 1..Len(children) :
            Tightens(k) =>
                /\ GroupOf(result, k + 2) = RightOperandOf(k)
                /\ ~IsPrefixOf(GroupOf(result, k + 2), GroupOf(result, k))

\* C1: when an infix operator A is followed, one operand later, by an infix
\* operator B that binds tighter, B's group is A's right operand or lies inside
\* A's right operand (so it is strictly inside A's group), and B's group never
\* contains A's group.
C1_PriorityNesting ==
    pc = "done" =>
        \A k \in 1..Len(children) :
            Tightens(k) =>
                /\ IsPrefixOf(RightOperandOf(k), GroupOf(result, k + 2))
                /\ ~IsPrefixOf(GroupOf(result, k + 2), GroupOf(result, k))

C1_Witness ==
    /\ pc = "done"
    /\ \E k \in 1..Len(children) :
          /\ Tightens(k)
          /\ GroupOf(result, k + 2) = RightOperandOf(k)
          /\ Len(GroupOf(result, k + 2)) > Len(GroupOf(result, k))

-----------------------------------------------------------------------------
(* N-ary chains *)

\* an operand, an addition, a subtraction and a multiplication
NaryTokens == {mi("x"), mo("+"), mo("-"), mo("times")}

InitNary == InitScan(NaryTokens, MaxArith, {{}}, {"other"})

SpecNary == InitNary /\ [][Next]_vars

\* x1 op1 x2 op2 ... xn: operands at the odd places, infix operators at the even
\* places, every two consecutive operators n-ary-compatible and of one priority
IsNaryChain ==
    /\ Len(children) >= 5 /\ Len(children) % 2 = 1
    /\ \A j \in 1..Len(children) :
          IF j % 2 = 1 THEN children[j].name = "mi"
          ELSE IsMo(children[j], {"+", "-", "times"})
    /\ \A j \in 1..Len(children) :
          (j % 2 = 0 /\ j + 2 <= Len(children)) =>
              /\ \/ children[j].text = children[j + 2].text
                 \/ {children[j].text, children[j + 2].text} = {"+", "-"}
              /\ InfixPriority(children[j].text) = InfixPriority(children[j + 2].text)

\* C2: for a chain x1 op1 x2 op2 ... xn of n-ary-compatible operators of one
\* priority, no frame is pushed after the one the first operator opened (the
\* stack holds the bottom frame and that frame until the end of the input), the
\* returned group has all operands and operators of the chain as its children
\* in input order, none of them wrapped in a group of its own.
C2_NaryChainOneGroup ==
    IsNaryChain =>
        /\ (pc = "scan" /\ i_child > 2) =>
               /\ Len(parse_stack) = 2
               /\ parse_stack[2].mrow = SubSeq(children, 1, i_child - 1)
        /\ pc # "panic"
        /\ pc \in {"done", "again"} =>
               /\ result.name = "mrow"
               /\ result.children = children

C2_Witness ==
    /\ IsNaryChain
    /\ pc = "done"
    /\ \E j \in 1..Len(children) : IsMo(children[j], {"+"})
    /\ \E j \in 1..Len(children) : IsMo(children[j], {"-"})
    /\ Len(result.children) = 5

-----------------------------------------------------------------------------
(* Fence pairs *)

\* an operand, an addition and the two parentheses
FenceTokens == {mi("x"), mo("+"), mo("("), mo(")")}

InitFence == InitScan(FenceTokens, MaxFence, {{}}, {"other"})

SpecFence == InitFence /\ [][Next]_vars

RECURSIVE NodeAt(_, _)
NodeAt(node, path) ==
    IF Len(path) = 0 THEN node ELSE NodeAt(node.children[path[1]], Tail(path))

LeftFenceTexts == {"(", "["}
RightFenceTexts == {")", "]"}

\* the number of fences open after the siblings from..to, -1 once a right fence
\* had no left fence to close
RECURSIVE OpenFences(_, _, _)
OpenFences(from, to, open) ==
    IF from > to THEN open
    ELSE IF IsMo(children[from], LeftFenceTexts) THEN OpenFences(from + 1, to, open + 1)
    ELSE IF IsMo(children[from], RightFenceTexts)
    THEN IF open = 0 THEN 0 - 1 ELSE OpenFences(from + 1, to, open - 1)
    ELSE OpenFences(from + 1, to, open)

\* a left fence at a, a right fence at b, no unmatched fence between them
FencePair(a, b) ==
    /\ a < b /\ b <= Len(children)
    /\ IsMo(children[a], LeftFenceTexts)
    /\ IsMo(children[b], RightFenceTexts)
    /\ OpenFences(a + 1, b - 1, 0) = 0

\* C3: a left fence, enclosed siblings without unmatched fences and a right
\* fence end up in one group that starts with the left fence, ends with the
\* right fence and has at most three children; the enclosed siblings are its
\* middle child (the sibling itself when there is one, a group of their own
\* when there are more), and no sibling outside the pair is in that group.
C3_FencePairOneGroup ==
    pc = "done" =>
        \A a, b \in 1..Len(children) :
            FencePair(a, b) =>
                LET g == GroupOf(result, a)
                    group == NodeAt(result, g)
                IN  /\ GroupOf(result, b) = g
                    /\ group.name = "mrow"
                    /\ Len(group.children) <= 3
                    /\ IndexInGroup(result, a) = 1
                    /\ IndexInGroup(result, b) = Len(group.children)
                    /\ Len(group.children) = IF b = a + 1 THEN 2 ELSE 3
                    /\ \A j \in (a + 1)..(b - 1) :
                          /\ IsPrefixOf(Append(g, 2), PathTo(result, j))
                          /\ (b = a + 2) => PathTo(result, j) = Append(g, 2)
                          /\ (b > a + 2) => Len(PathTo(result, j)) > Len(g) + 1
                    /\ \A j \in 1..Len(children) :
                          (j < a \/ j > b) => ~IsPrefixOf(g, PathTo(result, j))

C3_Witness ==
    /\ pc = "done"
    /\ \E a, b \in 1..Len(children) :
          /\ FencePair(a, b)
          /\ b = a + 3
          /\ a > 1
          /\ Len(NodeAt(result, GroupOf(result, a)).children) = 3

-----------------------------------------------------------------------------
(* The parse stack.  The siblings are what clean_mathml hands over: it drops   *)
(* or renames empty and whitespace-only mo elements (lines 612-617, 722-725), *)
(* so every mo of the alphabet has a visible character.                       *)

\* an operand, an infix and a postfix operator, a left fence, two right fences
StackTokens == {mi("x"), mo("+"), mo("!"), mo("("), mo(")"), mo("]")}

InitStack == InitScan(StackTokens, MaxLen, {{}}, {"other"})

SpecStack == InitStack /\ [][Next]_vars

\* C5: for every sibling sequence the reduce_stack(parse_stack, 0) at the end of
\* the input leaves exactly one frame, so the assertion after the final pop
\* (the stack is empty) does not fail.
C5_EndOfInputOneFrame ==
    /\ pc = "reduced" => Len(parse_stack) = 1
    /\ panic # FinalStack

\* C6: the parse stack is never empty where its top is read or popped
\* (reduce_stack does not pop the last frame, shift_stack leaves a frame), and
\* the operator of the bottom frame is the sentinel LEFT_FENCEPOST of priority 0.
C6_SentinelFrame ==
    /\ panic # EmptyStack
    /\ pc \in {"scan", "reduced"} =>
          /\ Len(parse_stack) >= 1
          /\ ptr_eq(parse_stack[1].op_pair.op, LEFT_FENCEPOST)
          /\ parse_stack[1].op_pair.op.priority = 0

\* a right fence without a left fence has replaced the bottom frame, and the
\* end of the input has reduced the stack to it
C6_Witness ==
    /\ pc = "reduced"
    /\ Len(parse_stack) = 1
    /\ Len(children) = MaxLen
    /\ IsMo(children[2], RightFenceTexts)
    /\ IsMo(children[3], {"+"})

-----------------------------------------------------------------------------
(* The second pass of canonicalize, line 465 *)

\* an identifier, a number, a trigonometric function name, a sign and the
\* parentheses
MixedTokens == {mi("x"), mn("2"), mi("sin"), mo("-"), mo("("), mo(")")}

InitMixed == InitScan(MixedTokens, MaxLen, {{}}, {"other"})

SpecMixed == InitMixed /\ [][Next]_vars

\* the nesting and the tokens of a tree, without its attributes
RECURSIVE Structure(_)
Structure(node) ==
    [name |-> node.name, text |-> node.text,
     children |-> [k \in 1..Len(node.children) |-> Structure(node.children[k])]]

\* a sibling sequence that starts and ends with an operand, has no fence and
\* no two operators in a row
OperandsAndSigns ==
    /\ Len(children) >= 1
    /\ children[1].name # "mo" /\ children[Len(children)].name # "mo"
    /\ \A j \in 1..Len(children) :
          children[j].name = "mo" =>
              /\ children[j].text \notin LeftFenceTexts \cup RightFenceTexts
              /\ j < Len(children) => children[j + 1].name # "mo"

\* C4: canonicalize_mrows on a tree that canonicalize_mrows returned gives a
\* structurally equal tree (the same nesting and the same tokens, no further
\* implied operator or group) and does not fail; stated for the trees returned
\* for sequences of operands and signs.
C4_SecondPassSame ==
    OperandsAndSigns =>
        /\ pc = "again" => Structure(second) = Structure(result)
        /\ pc = "panic" => result = NoNode

-----------------------------------------------------------------------------
(* find_operator on tokens with a form attribute, unknown tokens and bonds *)

mo_form(text, form) == Leaf("mo", text, form, 0)
mo_bond(text) == [Leaf("mo", text, "", 0) EXCEPT !.attrs = {CHEMICAL_BOND}]

\* an operand; "@", which the dictionary does not have, without a form, as
\* a prefix and as a postfix; "+", which has no postfix entry, as a postfix;
\* "@" marked as a chemical bond
FormTokens == {mi("x"), mo("@"), mo_form("@", "prefix"), mo_form("@", "postfix"),
               mo_form("+", "postfix"), mo_bond("@")}

InitForm == InitScan(FormTokens, MaxLen, {{}}, {"other"})

SpecForm == InitForm /\ [][Next]_vars

\* the role a form attribute declares
DeclaredRole(form) ==
    IF form = "prefix" THEN PREFIX ELSE IF form = "postfix" THEN POSTFIX ELSE INFIX

\* the dictionary has the token, with an entry of the role
HasEntry(text, role) ==
    /\ text \in DOMAIN OPERATORS
    /\ \E k \in 1..Len(OPERATORS[text]) : BitAnd(OPERATORS[text][k].op_type, role) # 0

\* the token is not in the dictionary, or its form attribute declares a role
\* the dictionary has no entry for
NoEntryFor(mo_node) ==
    \/ mo_node.text \notin DOMAIN OPERATORS
    \/ mo_node.form # "" /\ ~HasEntry(mo_node.text, DeclaredRole(mo_node.form))

\* the synthetic default of priority 260 of the declared role, or of the role
\* the position gives when there is no form attribute
IsDefaultOfRole(f) ==
    LET role == IF f.mo.form # "" THEN DeclaredRole(f.mo.form)
                ELSE compute_type_from_position(f.previous_operator, f.previous_node,
                                                f.next_node)
    IN  /\ f.result.priority = 260
        /\ f.result.op_type = (IF role \in {PREFIX, POSTFIX} THEN role ELSE INFIX)
        /\ f.result.key \in {"DEFAULT_OPERATOR_INFO_PREFIX", "DEFAULT_OPERATOR_INFO_INFIX",
                             "DEFAULT_OPERATOR_INFO_POSTFIX"}

ReturnsAnOperator(f) ==
    /\ IsSomeOp(f.result)
    /\ ~ptr_eq(f.result, ILLEGAL_OPERATOR_INFO)
    /\ f.result.op_type # NONE

\* C8 as stated: every token without a dictionary entry gets the default
C8_FindOperatorDefault_AsStated ==
    lastFind.called =>
        /\ ReturnsAnOperator(lastFind)
        /\ NoEntryFor(lastFind.mo) => IsDefaultOfRole(lastFind)

\* C8: find_operator always returns an operator; for a token that is not marked
\* as a chemical bond and is not in the dictionary, or whose form attribute
\* declares a role the dictionary has no entry for, it returns the default of
\* priority 260 of the declared role (prefix, postfix, otherwise infix) or,
\* without a form attribute, of the role inferred from the position.
C8_FindOperatorDefault ==
    lastFind.called =>
        /\ ReturnsAnOperator(lastFind)
        /\ (CHEMICAL_BOND \notin lastFind.mo.attrs /\ NoEntryFor(lastFind.mo))
              => IsDefaultOfRole(lastFind)

C8_Witness ==
    /\ lastFind.called
    /\ lastFind.mo.text = "+" /\ lastFind.mo.form = "postfix"
    /\ ptr_eq(lastFind.result, DEFAULT_OPERATOR_INFO_POSTFIX)
    /\ \E j \in 1..Len(children) :
          /\ children[j].text = "@" /\ children[j].form = "" /\ children[j].attrs = {}
          /\ j < i_child - 1

-----------------------------------------------------------------------------
(* Groups with one child *)

\* an mrow with one child, and an mrow wrapping a single mrow
OneChildMrow == InputMrow(<<mi("x")>>, {"class"})
MrowAroundMrow == InputMrow(<<InputMrow(<<mi("x"), mo("+"), mi("x")>>, {"id"})>>, {"class"})

GroupTokens == {mi("x"), mo("="), mo("+"), OneChildMrow, MrowAroundMrow}

InitGroup == InitScan(GroupTokens, MaxLen, {{}, {"mathcolor", "href"}}, {"other"})

SpecGroup == InitGroup /\ [][Next]_vars

\* C9: no group of the returned tree has exactly one child; when the final
\* frame holds one child, that child is returned in place of the group, with
\* the attributes of the scanned mrow set on it (an mrow around a single mrow
\* gives the inner mrow).
C9_NoSingleChildGroup ==
    pc = "done" =>
        /\ \A t \in Subtrees(result) : t.name = "mrow" => Len(t.children) # 1
        /\ input_mrow.attrs \subseteq result.attrs
        /\ Len(children) = 1 =>
              /\ Structure(result) = Structure(children[1])
              /\ result.attrs =
                    (children[1].attrs \cap (GLOBAL_ATTRS \cup PrefixedAttrs))
                        \cup input_mrow.attrs

\* the scanned mrow has attributes and wraps a single mrow: the inner group of
\* three children is returned and carries the attributes of both
C9_Witness ==
    /\ pc = "done"
    /\ Len(children) = 1
    /\ input_mrow.children[1] = [MrowAroundMrow EXCEPT !.id = 1]
    /\ input_mrow.attrs # {}
    /\ result.name = "mrow" /\ Len(result.children) = 3
    /\ result.attrs = {"id", "class", "mathcolor", "href"}

-----------------------------------------------------------------------------
(* canonicalize, canonicalize.rs 443-470, and assure_mathml, 493-553 *)

ELEMENTS_WITH_ONE_CHILD ==
    {"math", "msqrt", "merror", "mpadded", "mphantom", "menclose", "mtd", "mscarry"}

ELEMENTS_WITH_FIXED_NUMBER_OF_CHILDREN ==
    {"mfrac", "mroot", "msub", "msup", "msubsup", "munder", "mover", "munderover",
     "mmultiscripts", "mlongdiv"}

EMPTY_ELEMENTS ==
    {"mspace", "none", "mprescripts", "mglyph", "malignmark", "maligngroup", "msline"}

ALL_MATHML_ELEMENTS ==
    {"mi", "mo", "mn", "mtext", "ms", "mspace", "mglyph",
     "mfrac", "mroot", "msub", "msup", "msubsup", "munder", "mover", "munderover",
     "mmultiscripts", "mstack", "mlongdiv", "msgroup", "msrow", "mscarries", "mscarry",
     "msline", "none", "mprescripts", "malignmark", "maligngroup",
     "math", "msqrt", "merror", "mpadded", "mphantom", "menclose", "mtd", "mstyle",
     "mrow", "mfenced", "mtable", "mtr", "mlabeledtr"}

\* xpath_functions::is_leaf: the token elements
MATHML_LEAF_NODES == {"mi", "mo", "mn", "mtext", "ms", "mspace", "mglyph", "none"}
is_leaf(mathml) == mathml.name \in MATHML_LEAF_NODES

\* mathml.children().len(): the element children and the text child of a token
n_children_of(mathml) ==
    Len(mathml.children) + (IF mathml.text # "" THEN 1 ELSE 0)

\* a fixed-arity test that asks two children of every container
wrong_number_unless_two(mathml) ==
    /\ mathml.name \in ELEMENTS_WITH_FIXED_NUMBER_OF_CHILDREN
    /\ n_children_of(mathml) # 2

\* lines 517-536: the element is a fixed-arity container with a wrong count
has_wrong_number_of_children(mathml) ==
    LET n_children == n_children_of(mathml)
    IN  /\ mathml.name \in ELEMENTS_WITH_FIXED_NUMBER_OF_CHILDREN
        /\ IF mathml.name \in {"munderover", "msubsup"} THEN n_children # 3
           ELSE IF mathml.name = "mmultiscripts"
           THEN LET has_prescripts ==
                        \E k \in 1..Len(mathml.children) :
                            mathml.children[k].name = "mprescripts"
                IN  has_prescripts # (n_children % 2 = 0)
           ELSE IF mathml.name = "mlongdiv" THEN n_children < 3
           ELSE n_children # 2

\* assure_mathml: "ok", "error" (bail!) or "panic" (the assertion of
\* get_presentation_element)
RECURSIVE assure_mathml(_), assure_children(_, _)
assure_mathml(mathml) ==
    LET n_children == n_children_of(mathml)
        leaf_result ==
            IF ~is_leaf(mathml) THEN "go on"
            ELSE IF mathml.name \in EMPTY_ELEMENTS
            THEN IF n_children # 0 THEN "error" ELSE "go on"
            ELSE IF (n_children = 1 /\ mathml.text # "") \/ n_children = 0 THEN "ok"
            ELSE "error"
    IN  IF leaf_result # "go on" THEN leaf_result
        ELSE IF has_wrong_number_of_children(mathml) THEN "error"
        ELSE IF mathml.name = "semantics"
        THEN IF Len(mathml.children) = 0 THEN "ok"
             ELSE LET p == get_presentation_element(mathml)
                  IN  IF p.panic # "none" THEN "panic" ELSE assure_mathml(p.el)
        ELSE IF mathml.name \notin ALL_MATHML_ELEMENTS THEN "error"
        ELSE assure_children(mathml.children, 1)

\* the loop of lines 549-551, from child k on
assure_children(kids, k) ==
    IF k > Len(kids) THEN "ok"
    ELSE LET r == assure_mathml(kids[k])
         IN  IF r # "ok" THEN r ELSE assure_children(kids, k + 1)

\* an element with children, without text
Element(name, attrs, kids) ==
    [Leaf(name, "", "", 0) EXCEPT !.attrs = attrs, !.children = kids]

\* lines 446-455: a root that is not math is put into a new math element
WithMathRoot(mathml) ==
    IF mathml.name # "math"
    THEN [Element("math", {}, <<mathml>>) EXCEPT !.added = TRUE]
    ELSE mathml

\* line 456: CanonicalizeContext::assure_mathml(mathml)?
Validate ==
    /\ cpc = "start"
    /\ LET r == assure_mathml(WithMathRoot(doc))
       IN  cpc' = IF r = "ok" THEN "valid" ELSE r
    /\ UNCHANGED <<doc, ranClean, ranGroup, scanVars>>

\* lines 457-459: clean_mathml, assure_math_not_empty, assure_nary_tag_has_mrow
Clean ==
    /\ cpc = "valid"
    /\ ranClean' = TRUE
    /\ cpc' = "cleaned"
    /\ UNCHANGED <<doc, ranGroup, scanVars>>

\* lines 460-467: canonicalize_mrows, and the second pass when the tree is not
\* chemistry
Group ==
    /\ cpc = "cleaned"
    /\ ranGroup' = TRUE
    /\ cpc' = "grouped"
    /\ UNCHANGED <<doc, ranClean, scanVars>>

NextCanon == Validate \/ Clean \/ Group

\* The documents: a token, an empty element and an element that is not MathML
\* as leaves; containers over them; semantics elements with an annotation.
DocLeaves == {mi("x"), Element("mprescripts", {}, <<>>), Element("foo", {}, <<>>)}

ContainerNames == {"mrow", "mfrac", "msubsup", "mmultiscripts", "mlongdiv", "foo"}

Containers ==
    {Element(n, {}, kids) : n \in ContainerNames, kids \in SiblingSeqs(DocLeaves, MaxKids)}

ShortFraction == Element("mfrac", {}, <<mi("x")>>)

Annotations ==
    {Element("annotation-xml", attrs, kids) :
        attrs \in {{}, {"encoding=MathML-Presentation"}},
        kids \in {<<>>, <<mi("x")>>, <<ShortFraction>>, <<Element("foo", {}, <<>>)>>,
                  <<mi("x"), mi("x")>>}}

Semantics ==
    {Element("semantics", {}, <<>>)} \cup
    {Element("semantics", {}, <<e, a>>) :
        e \in {mi("x"), ShortFraction, Element("foo", {}, <<>>)},
        a \in Annotations}

Docs ==
    Containers \cup Semantics
      \cup {Element("math", {}, <<e>>) : e \in Semantics}
      \cup {Element("mrow", {}, <<e, l>>) : e \in Semantics, l \in DocLeaves}

InitCanon ==
    /\ doc \in Docs
    /\ cpc = "start"
    /\ ranClean = FALSE
    /\ ranGroup = FALSE
    /\ children = <<>>
    /\ input_mrow = InputMrow(<<>>, {})
    /\ ctx = "other"
    /\ i_child = 1
    /\ parse_stack = <<StackInfoNew>>
    /\ pc = "idle"
    /\ panic = "none"
    /\ result = NoNode
    /\ second = NoNode
    /\ lastFind = NoFind

SpecCanon == InitCanon /\ [][NextCanon]_vars

\* the MathML element names: the validator's list and the semantics elements
KnownNames == ALL_MATHML_ELEMENTS \cup {"semantics", "annotation", "annotation-xml"}

\* a fixed-arity container with the wrong number of children
WrongArity(t) ==
    LET n == n_children_of(t)
        prescripts == \E k \in 1..Len(t.children) : t.children[k].name = "mprescripts"
    IN  \/ t.name \in {"msubsup", "munderover"} /\ n # 3
        \/ t.name \in {"mfrac", "mroot", "msub", "msup", "munder", "mover"} /\ n # 2
        \/ t.name = "mlongdiv" /\ n < 3
        \/ t.name = "mmultiscripts" /\ ~prescripts /\ n % 2 = 0
        \/ t.name = "mmultiscripts" /\ prescripts /\ n % 2 = 1

IsBadElement(t) == t.name \notin KnownNames \/ WrongArity(t)

\* the elements of a document outside the children of semantics elements that
\* are not its presentation element
RECURSIVE ValidatedPart(_)
ValidatedPart(node) ==
    {node} \cup
        IF node.name = "semantics"
        THEN IF Len(node.children) = 0 \/ get_presentation_element(node).panic # "none"
             THEN {}
             ELSE ValidatedPart(get_presentation_element(node).el)
        ELSE UNION {ValidatedPart(node.children[k]) : k \in 1..Len(node.children)}

\* a semantics element whose MathML-Presentation annotation does not have
\* exactly one child
HasBrokenAnnotation(node) ==
    \E t \in Subtrees(node) :
        /\ t.name = "semantics" /\ Len(t.children) > 0
        /\ get_presentation_element(t).panic # "none"

-----------------------------------------------------------------------------
(* canonicalize_mrows on a container, canonicalize.rs 1940-1981 *)

\* the children of the containers: a token, two groups to build, a closing
\* fence that is the base of a script, and a fraction
PartTrees ==
    {mi("x"),
     InputMrow(<<mn("2"), mi("x")>>, {}),
     InputMrow(<<mi("x"), mo("+"), mi("x"), mo("times"), mi("x")>>, {}),
     InputMrow(<<mo("("), mi("x"), Element("msup", {}, <<mo(")"), mn("2")>>)>>, {}),
     Element("mfrac", {}, <<mn("2"), InputMrow(<<mn("2"), mi("x")>>, {})>>)}

TwoChildNames == {"mfrac", "msup", "msub", "mroot", "munder", "mover"}

ContainerDocs ==
    {Element(n, {}, <<a, b>>) : n \in TwoChildNames, a \in PartTrees, b \in PartTrees}
      \cup {Element(n, {}, <<a>>) : n \in {"msqrt", "mtd", "math"}, a \in PartTrees}
      \cup {Element("semantics", {}, <<a, Element("annotation-xml", attrs, <<b>>)>>) :
                a \in PartTrees, b \in PartTrees,
                attrs \in {{}, {"encoding=MathML-Presentation"}}}

\* self.canonicalize_mrows(mathml) on the document
CanonicalizeContainer ==
    /\ pc = "container"
    /\ LET Returned(r) ==
               /\ panic' = r.panic
               /\ result' = r.node
               /\ pc' = IF r.panic = "none" THEN "applied" ELSE "panic"
       IN  Returned(canonicalize_mrows(doc, ctx))
    /\ UNCHANGED <<children, i_child, parse_stack, second, lastFind, input_mrow, ctx,
                   canonVars>>

InitContainer ==
    /\ doc \in ContainerDocs
    /\ pc = "container"
    /\ cpc = "idle"
    /\ ranClean = FALSE
    /\ ranGroup = FALSE
    /\ children = <<>>
    /\ input_mrow = InputMrow(<<>>, {})
    /\ ctx = "other"
    /\ i_child = 1
    /\ parse_stack = <<StackInfoNew>>
    /\ panic = "none"
    /\ result = NoNode
    /\ second = NoNode
    /\ lastFind = NoFind

SpecContainer == InitContainer /\ [][CanonicalizeContainer]_vars

\* the returned element is the given one with child k canonicalized, for all k
SameContainer ==
    /\ result.name = doc.name
    /\ result.attrs = doc.attrs
    /\ Len(result.children) = Len(doc.children)
    /\ \A k \in 1..Len(doc.children) :
          result.children[k] = canonicalize_mrows(doc.children[k], ChildCtx(doc, k)).node

\* C11 as stated: every container other than an mrow comes back with child k
\* canonicalized, and no fixed-arity container has a wrong child count
C11_ContainerKept_AsStated ==
    pc = "applied" =>
        /\ SameContainer
        /\ \A t \in Subtrees(result) : ~WrongArity(t)

\* C11: canonicalize_mrows on a container other than an mrow and other than a
\* semantics element returns that container with as many children as it had,
\* child k being the canonicalization of the original child k; a semantics
\* element keeps its children but the one get_presentation_element names,
\* which is replaced by the canonicalized presentation element; no
\* fixed-arity container of the returned tree has a wrong child count.
C11_ContainerKept ==
    pc = "applied" =>
        /\ doc.name # "semantics" => SameContainer
        /\ doc.name = "semantics" =>
              /\ result.name = "semantics"
              /\ Len(result.children) = Len(doc.children)
              /\ \A k \in 1..Len(doc.children) :
                    result.children[k] =
                        IF k = get_presentation_element(doc).i
                        THEN canonicalize_mrows(get_presentation_element(doc).el,
                                                "other").node
                        ELSE doc.children[k]
        /\ \A t \in Subtrees(result) : ~WrongArity(t)

\* a fraction whose denominator was a group of two operands: still two
\* children, the second one now a group of three
C11_Witness ==
    /\ pc = "applied"
    /\ doc.name = "mfrac"
    /\ doc.children[2].name = "mrow" /\ Len(doc.children[2].children) = 2
    /\ Len(result.children) = 2
    /\ result.children[2].name = "mrow" /\ Len(result.children[2].children) = 3

-----------------------------------------------------------------------------
(* The marks of an inserted operator, canonicalize.rs 3109-3172 *)

\* a parenthesized sum that is already a group
ParenGroup ==
    InputMrow(<<mo("("), InputMrow(<<mi("x"), mo("+"), mi("x")>>, {}), mo(")")>>, {})

GuessTokens == {mi("x"), mi("sin"), mo("("), mo(")"), ParenGroup}

InitGuess == InitScan(GuessTokens, MaxLen, {{}}, {"other"})

SpecGuess == InitGuess /\ [][Next]_vars

InvisibleTexts == {"FA", "IT", "IC", "IP"}

\* mo is an inserted operator with the marks that the answer of
\* is_function_name asks for
MarkedFor(implied_mo, likely_function_name) ==
    /\ implied_mo.name = "mo" /\ implied_mo.text \in InvisibleTexts
    /\ implied_mo.added
    /\ implied_mo.guess <=> (likely_function_name = "Maybe")
    /\ likely_function_name = "Maybe" => implied_mo.text # "FA"
    /\ likely_function_name = "True" => implied_mo.text = "FA"

\* a step of the loop that met two operands in a row (line 3107): the operator
\* it inserted is the one before the child in the top frame
TwoOperandsStep ==
    /\ pc = "scan" /\ pc' = "scan" /\ i_child' = i_child + 1
    /\ get_possible_embellished_node(children'[i_child]).name # "mo"
    /\ IsSome(last_child_in_mrow(top(parse_stack)))
    /\ get_possible_embellished_node(last_child_in_mrow(top(parse_stack))).name # "mo"

\* a step of the loop that met a left fence or a prefix operator after an
\* operand (line 3151): the operator it inserted ends the frame below the top
OperandFenceStep ==
    /\ pc = "scan" /\ pc' = "scan" /\ i_child' = i_child + 1
    /\ get_possible_embellished_node(children'[i_child]).name = "mo"
    /\ lastFind'.called
    /\ is_left_fence(lastFind'.result) \/ is_prefix(lastFind'.result)
    /\ top(parse_stack).is_operand

MarksOfStep ==
    /\ TwoOperandsStep =>
          /\ Len(top(parse_stack').mrow) >= 2
          /\ MarkedFor(top(parse_stack').mrow[Len(top(parse_stack').mrow) - 1],
                       is_function_name(last_child_in_mrow(top(parse_stack)),
                           Some(SubSeq(children', i_child, Len(children)))))
    /\ OperandFenceStep =>
          /\ Len(parse_stack') >= 2
          /\ MarkedFor(last_child_in_mrow(parse_stack'[Len(parse_stack') - 1]),
                       is_function_name(children[i_child - 1],
                           Some(SubSeq(children', i_child, Len(children)))))

\* C12: every operator the scan inserts carries data-changed='added'; it
\* carries data-function-guess='true' exactly when is_function_name answered
\* Maybe for the operand on its left, and then it is not function application.
C12_InsertedMarks == [][MarksOfStep]_vars

\* the returned tree holds an implied multiplication marked as a guess and a
\* function application that is not
C12_Witness ==
    /\ pc = "done"
    /\ \E t \in Subtrees(result) :
          t.name = "mo" /\ t.text = "IT" /\ t.added /\ t.guess
    /\ \E t \in Subtrees(result) :
          t.name = "mo" /\ t.text = "FA" /\ t.added /\ ~t.guess

-----------------------------------------------------------------------------
(* Arguments of trig functions, canonicalize.rs 2972-3042 *)

TrigTokens == {mi("sin"), mi("cos"), mi("ker"), mn("2"), mi("x")}

InitTrig == InitScan(TrigTokens, MaxLen, {{}}, {"other"})

SpecTrig == InitTrig /\ [][Next]_vars

\* a simple operand that is not a known function name
IsPlainOperand(node) == is_simple(node) /\ is_function_name(node, None) # "True"

IsKnownFunction(node) == node.name = "mi" /\ node.text \in FunctionNames

IsTrigName(node) == node.name = "mi" /\ node.text \in TrigFunctionNames

SameLeaf(a, b) == a.name = b.name /\ a.text = b.text /\ a.id = b.id

IsAdded(node, ch) == node.name = "mo" /\ node.text = ch /\ node.added

\* mrow(f, function application, a)
IsApplication(node, f, a) ==
    /\ node.name = "mrow" /\ Len(node.children) = 3
    /\ SameLeaf(node.children[1], f)
    /\ IsAdded(node.children[2], "FA")
    /\ SameLeaf(node.children[3], a)

\* mrow(a1, times, a2, times, ...) over the operands
IsProduct(node, operands) ==
    /\ node.name = "mrow" /\ Len(node.children) = 2 * Len(operands) - 1
    /\ \A k \in 1..Len(operands) : SameLeaf(node.children[2 * k - 1], operands[k])
    /\ \A k \in 1..(Len(operands) - 1) : IsAdded(node.children[2 * k], "IT")

\* the first n siblings are a function name and then plain operands
NameThenOperands(kids, n) ==
    /\ n >= 3 /\ Len(kids) >= n
    /\ IsKnownFunction(kids[1])
    /\ \A k \in 2..n : IsPlainOperand(kids[k])

\* sin 2 x: the operands are one product, the argument of the function
TrigGroupsAll ==
    /\ pc = "done"
    /\ NameThenOperands(input_mrow.children, Len(input_mrow.children))
    /\ IsTrigName(input_mrow.children[1])
    => /\ result.name = "mrow" /\ Len(result.children) = 3
       /\ SameLeaf(result.children[1], input_mrow.children[1])
       /\ IsAdded(result.children[2], "FA")
       /\ IsProduct(result.children[3], Tail(input_mrow.children))

\* while the operands of a trig function are scanned the top frame is that of
\* the multiplication of elevated priority
TrigUsesHighPriority ==
    /\ pc = "scan"
    /\ i_child >= 4
    /\ NameThenOperands(input_mrow.children, i_child - 1)
    /\ IsTrigName(input_mrow.children[1])
    => ptr_eq(top(parse_stack).op_pair.op, IMPLIED_TIMES_HIGH_PRIORITY)

\* ker 2 x: the first operand is the argument, the application is multiplied
\* by the others
OtherGroupsFirst ==
    /\ pc = "done"
    /\ NameThenOperands(input_mrow.children, Len(input_mrow.children))
    /\ ~IsTrigName(input_mrow.children[1])
    => /\ result.name = "mrow"
       /\ Len(result.children) = 2 * Len(input_mrow.children) - 3
       /\ IsApplication(result.children[1], input_mrow.children[1], input_mrow.children[2])
       /\ \A k \in 3..Len(input_mrow.children) :
             /\ IsAdded(result.children[2 * k - 4], "IT")
             /\ SameLeaf(result.children[2 * k - 3], input_mrow.children[k])

\* f a g b with f a trig name and g a known function name
TwoApplications(kids) ==
    /\ Len(kids) = 4
    /\ IsTrigName(kids[1]) /\ IsPlainOperand(kids[2])
    /\ IsKnownFunction(kids[3]) /\ IsPlainOperand(kids[4])

\* sin x cos x: the two applications are multiplied
FunctionOperandMultiplies ==
    /\ pc = "done"
    /\ TwoApplications(input_mrow.children)
    => /\ result.name = "mrow" /\ Len(result.children) = 3
       /\ IsApplication(result.children[1], input_mrow.children[1], input_mrow.children[2])
       /\ IsAdded(result.children[2], "IT")
       /\ IsApplication(result.children[3], input_mrow.children[3], input_mrow.children[4])

\* the multiplication shifted before the second function name is the ordinary one
FunctionOperandOrdinary ==
    /\ pc = "scan"
    /\ i_child = 4
    /\ TwoApplications(input_mrow.children)
    => ptr_eq(top(parse_stack).op_pair.op, IMPLIED_TIMES)

\* C13: the plain operands that follow a trig function name are joined by the
\* implied multiplication of elevated priority and are together the argument
\* of the function; after another known function only the first operand is
\* the argument; an operand that is a known function name is joined by the
\* ordinary implied multiplication, so that the two applications are multiplied.
C13_TrigArgument ==
    /\ TrigGroupsAll
    /\ TrigUsesHighPriority
    /\ OtherGroupsFirst
    /\ FunctionOperandMultiplies
    /\ FunctionOperandOrdinary

\* sin 2 x x has been scanned into sin applied to the product of three operands
C13_Witness ==
    /\ pc = "done"
    /\ Len(input_mrow.children) = 4
    /\ NameThenOperands(input_mrow.children, 4)
    /\ IsTrigName(input_mrow.children[1])
    /\ Len(result.children) = 3
    /\ IsProduct(result.children[3], Tail(input_mrow.children))

-----------------------------------------------------------------------------
(* The role of an operator next to a function name, canonicalize.rs 2349-2364 *)

\* the neighbour is there and is a known function name
IsFunctionNeighbour(node) ==
    /\ IsSome(node)
    /\ is_function_name(get_possible_embellished_node(node), None) = "True"

RoleFromPosition(f) ==
    compute_type_from_position(f.previous_operator, f.previous_node, f.next_node)

\* C14: for an operator without a form attribute compute_type_from_position
\* returns infix when the right neighbour is a known function name, and
\* otherwise prefix when the left neighbour is one; find_operator then returns
\* the entry of '-' of that role.
C14_RoleNextToFunction ==
    (lastFind.called /\ lastFind.mo.form = "") =>
        /\ IsFunctionNeighbour(lastFind.next_node) =>
              /\ RoleFromPosition(lastFind) = INFIX
              /\ lastFind.mo.text = "-" => ptr_eq(lastFind.result, MINUS)
        /\ (~IsFunctionNeighbour(lastFind.next_node)
               /\ IsFunctionNeighbour(lastFind.previous_node)) =>
              /\ RoleFromPosition(lastFind) = PREFIX
              /\ lastFind.mo.text = "-" => ptr_eq(lastFind.result, PREFIX_MINUS)

\* the '-' of sin - sin: both neighbours are function names and it is infix
C14_Witness ==
    /\ lastFind.called
    /\ lastFind.mo.text = "-" /\ lastFind.mo.form = ""
    /\ IsFunctionNeighbour(lastFind.next_node)
    /\ IsFunctionNeighbour(lastFind.previous_node)
    /\ lastFind.previous_node.text = "sin" /\ lastFind.next_node.text = "sin"
    /\ is_infix(lastFind.result)

-----------------------------------------------------------------------------
(* Vertical bars, canonicalize.rs 2425-2481 *)

BarTokens == {mo("|"), mi("x"), mo("+")}

\* the input of the test vertical_bars (lines 3903-3929)
VerticalBarsTest ==
    <<mo("|"), mi("x"), mo("|"), mo("+"), mo("|"), mi("a"), mo("+"), mn("1"), mo("|")>>

InitBars ==
    /\ \E kids \in SiblingSeqs(BarTokens, MaxLen) \cup {VerticalBarsTest} :
          /\ children = WithIds(kids)
          /\ input_mrow = InputMrow(WithIds(kids), {})
    /\ ctx = "other"
    /\ i_child = 1
    /\ parse_stack = <<StackInfoNew>>
    /\ pc = "scan"
    /\ panic = "none"
    /\ result = NoNode
    /\ second = NoNode
    /\ lastFind = NoFind
    /\ doc = NoNode
    /\ cpc = "idle"
    /\ ranClean = FALSE
    /\ ranGroup = FALSE

SpecBars == InitBars /\ [][Next]_vars

BarPrefix == OperatorVersion(OPERATORS["|"], "prefix")
BarPostfix == OperatorVersion(OPERATORS["|"], "postfix")

IsBar(node) == node.name = "mo" /\ node.text = "|"

\* the step of the loop that meets a vertical bar
BarStep ==
    /\ pc = "scan" /\ i_child <= Len(children) /\ i_child' = i_child + 1
    /\ IsBar(get_possible_embellished_node(children[i_child]))

\* the reading determine_vertical_bar_op chooses in this step
ChosenBar ==
    determine_vertical_bar_op(lastFind'.result,
        get_possible_embellished_node(children'[i_child]),
        IF i_child + 1 <= Len(children) THEN children'[i_child + 1] ELSE NoNode,
        parse_stack,
        n_vertical_bars_on_right(SubSeq(children', i_child + 1, Len(children)), "|"),
        SubSeq(children', i_child + 2, Len(children)))

\* the top frame is empty or does not end in an operand
WantsOperand(stack) == Len(top(stack).mrow) = 0 \/ ~top(stack).is_operand

\* the opening bar is the operator of the top frame or of the frame below it
HasOpenBar(stack) ==
    \/ ptr_eq(top(stack).op_pair.op, BarPrefix)
    \/ Len(stack) >= 2 /\ ptr_eq(stack[Len(stack) - 1].op_pair.op, BarPrefix)

\* the group ends with the child of that id
EndsWithChild(group, id) ==
    /\ group.name = "mrow" /\ Len(group.children) > 0
    /\ group.children[Len(group.children)].id = id

BarRules ==
    BarStep =>
        /\ WantsOperand(parse_stack) =>
              /\ ptr_eq(ChosenBar, BarPrefix) /\ is_left_fence(ChosenBar)
              /\ pc' = "scan"
              /\ ptr_eq(top(parse_stack').op_pair.op, BarPrefix)
              /\ Len(top(parse_stack').mrow) = 1
              /\ top(parse_stack').mrow[1].id = i_child
        /\ (~WantsOperand(parse_stack)
               /\ (i_child = Len(children) \/ HasOpenBar(parse_stack))) =>
              /\ ptr_eq(ChosenBar, BarPostfix) /\ is_right_fence(ChosenBar)
              /\ pc' = "scan" =>
                    EndsWithChild(last_child_in_mrow(top(parse_stack')), i_child)

\* | x | + | a + 1 | is the sum of two groups in bars
BarGroups ==
    (pc = "done" /\ Len(input_mrow.children) = 9) =>
        /\ result.name = "mrow" /\ Len(result.children) = 3
        /\ result.children[2].text = "+" /\ result.children[2].id = 4
        /\ result.children[1].name = "mrow" /\ Len(result.children[1].children) = 3
        /\ IsBar(result.children[1].children[1]) /\ IsBar(result.children[1].children[3])
        /\ result.children[1].children[2].id = 2
        /\ result.children[3].name = "mrow" /\ Len(result.children[3].children) = 3
        /\ IsBar(result.children[3].children[1]) /\ IsBar(result.children[3].children[3])
        /\ result.children[3].children[2].name = "mrow"
        /\ Len(result.children[3].children[2].children) = 3
        /\ \A k \in 1..3 : result.children[3].children[2].children[k].id = 5 + k

\* C15: a vertical bar met when the top frame is empty or does not end in an
\* operand is an opening fence; otherwise it is a closing fence when it is the
\* last child or when the opening bar is the operator of the top frame or of
\* the frame below it; | x | + | a + 1 | is two groups in bars joined by +.
C15_VerticalBars == [][BarRules]_vars /\ []BarGroups

\* the test input has been scanned into two groups in bars and a +
C15_Witness ==
    /\ pc = "done" /\ Len(input_mrow.children) = 9
    /\ Len(result.children) = 3
    /\ IsBar(result.children[1].children[3])
    /\ IsBar(result.children[3].children[1])

-----------------------------------------------------------------------------
(* Mixed fractions, canonicalize.rs 2727-2812 and 3180-3184 *)

IntegerFraction == Element("mfrac", {}, <<mn("2"), mn("2")>>)
GroupedFraction == InputMrow(<<mn("2"), mo("/"), mn("2")>>, {})
NegativeInteger == InputMrow(<<mo("-"), mn("2")>>, {})

FractionTokens ==
    {mn("2"), mn("2.5"), mo("/"), IntegerFraction, GroupedFraction, NegativeInteger}

InitFraction == InitScan(FractionTokens, MaxLen, {{}}, {"other"})

SpecFraction == InitFraction /\ [][Next]_vars

IsInteger(node) == node.name = "mn" /\ node.text \notin DecimalTexts

IsSlash(node) == node.name = "mo" /\ node.text = "/"

\* n, or the group - n
IsIntegerPart(node) ==
    \/ IsInteger(node)
    \/ /\ node.name = "mrow" /\ Len(node.children) = 2
       /\ node.children[1].name = "mo" /\ node.children[1].text = "-"
       /\ IsInteger(node.children[2])

\* the three nodes are n / d
IsLinear(kids, k) ==
    /\ Len(kids) >= k + 2
    /\ IsInteger(kids[k]) /\ IsSlash(kids[k + 1]) /\ IsInteger(kids[k + 2])

\* a fraction of integers starts at sibling k: an mfrac, a group n / d, or the
\* three siblings n / d
IsFractionAt(kids, k) ==
    \/ /\ kids[k].name = "mfrac" /\ Len(kids[k].children) = 2
       /\ IsInteger(kids[k].children[1]) /\ IsInteger(kids[k].children[2])
    \/ /\ kids[k].name = "mrow" /\ Len(kids[k].children) = 3
       /\ IsLinear(kids[k].children, 1)
    \/ IsLinear(kids, k)

\* the step of the loop that meets the fraction of a mixed fraction
MixedStep ==
    /\ pc = "scan" /\ i_child >= 2 /\ i_child <= Len(children)
    /\ i_child' = i_child + 1
    /\ IsIntegerPart(input_mrow.children[i_child - 1])
    /\ IsFractionAt(input_mrow.children, i_child)

\* the step inserts the invisible plus between the integer and the fraction
InsertsPlus ==
    MixedStep =>
        /\ pc' = "scan"
        /\ Len(top(parse_stack').mrow) >= 3
        /\ top(parse_stack').mrow[Len(top(parse_stack').mrow)] = children'[i_child]
        /\ IsAdded(top(parse_stack').mrow[Len(top(parse_stack').mrow) - 1], "IP")
        /\ ptr_eq(top(parse_stack').op_pair.op, IMPLIED_INVISIBLE_PLUS)

\* the '/' of the three siblings n / d is shifted with the elevated priority
SlashElevated ==
    (/\ pc = "scan" /\ i_child >= 4
     /\ IsIntegerPart(input_mrow.children[i_child - 3])
     /\ IsLinear(input_mrow.children, i_child - 2))
    => /\ ptr_eq(top(parse_stack).op_pair.op, IMPLIED_PLUS_SLASH_HIGH_PRIORITY)
       /\ Len(parse_stack) >= 2
       /\ ptr_eq(parse_stack[Len(parse_stack) - 1].op_pair.op, IMPLIED_INVISIBLE_PLUS)

\* 2 2 / 2 is 2 plus the group 2 / 2
LinearGroups ==
    (/\ pc = "done" /\ Len(input_mrow.children) = 4
     /\ IsIntegerPart(input_mrow.children[1])
     /\ IsLinear(input_mrow.children, 2))
    => /\ result.name = "mrow" /\ Len(result.children) = 3
       /\ result.children[1].name = input_mrow.children[1].name
       /\ IsIntegerPart(result.children[1])
       /\ IsAdded(result.children[2], "IP")
       /\ result.children[3].name = "mrow"
       /\ Len(result.children[3].children) = 3
       /\ \A k \in 1..3 : result.children[3].children[k].id = k + 1

\* C16: an integer (n, or the group - n) immediately followed by a fraction of
\* integers (an mfrac, the group n / d, or the three siblings n / d) gets the
\* invisible plus between them; the '/' of the three siblings is shifted with
\* the elevated priority, so that 2 3 / 4 is 2 plus the group 3 / 4.
C16_MixedFraction == [][InsertsPlus]_vars /\ []SlashElevated /\ []LinearGroups

\* - 2 followed by the siblings 2 / 2 has been scanned
C16_Witness ==
    /\ pc = "done" /\ Len(input_mrow.children) = 4
    /\ input_mrow.children[1].name = "mrow"
    /\ IsLinear(input_mrow.children, 2)
    /\ IsAdded(result.children[2], "IP")
    /\ Len(result.children[3].children) = 3

-----------------------------------------------------------------------------
(* Number blocks, canonicalize.rs 1255-1285, 1331-1410 and 1472-1582.  The   *)
(* code counts the children from 0; At(kids, k) is children[k] of the    *)
(* code.  preceding and following are the siblings before and after the      *)
(* parent element (mrow.preceding_siblings(), mrow.following_siblings()).    *)

NBSP == "U+00A0"

At(kids, k) == kids[k + 1]

\* text.trim().is_empty()
IsBlank(text) == text \in {"", " ", NBSP}

\* the texts with three digits; the alphabets have no block of four or five
ThreeDigitTexts == {"123", "456"}

\* the number texts of the alphabets without a comma, a point, a space or a
\* bracket; everything else (a decimal, a merged block) has one
PlainNumberTexts == {"2", "8", "123", "456"}

\* SEPARATORS.is_match(text)
HasSeparator(text) == text \notin PlainNumberTexts

\* as_text(child).contains('.')
ContainsPoint(text) == text \in DecimalTexts \cup {"."}

is_digit_block(mathml) ==
    IF mathml.name = "mn" /\ mathml.text \in ThreeDigitTexts THEN "DecimalBlock_3"
    ELSE "None"

RECURSIVE count_decimal_pts(_, _, _)
count_decimal_pts(kids, start, end) ==
    IF start >= end \/ start >= Len(kids) THEN 0
    ELSE (IF ContainsPoint(At(kids, start).text) THEN 1 ELSE 0)
           + count_decimal_pts(kids, start + 1, end)

\* lines 1478-1484: whitespace at the end is not part of the number
RECURSIVE WithoutBlankEnd(_, _, _)
WithoutBlankEnd(kids, start, end) ==
    IF end < start + 3 THEN end
    ELSE IF ~is_leaf(At(kids, end - 1)) \/ ~IsBlank(At(kids, end - 1).text)
    THEN end
    ELSE WithoutBlankEnd(kids, start, end - 1)

\* lines 1507-1521: the digit blocks of the parent are all of one type
RECURSIVE SameBlockType(_, _, _)
SameBlockType(kids, k, digit_block) ==
    IF k >= Len(kids) THEN TRUE
    ELSE IF At(kids, k).name # "mn" THEN SameBlockType(kids, k + 1, digit_block)
    ELSE IF digit_block = "None"
    THEN SameBlockType(kids, k + 1, is_digit_block(At(kids, k)))
    ELSE IF is_digit_block(At(kids, k)) # digit_block THEN FALSE
    ELSE SameBlockType(kids, k + 1, digit_block)

\* lines 1533-1557: no fence on both sides
NotInFences(preceding, following, kids, start, end) ==
    LET Unfenced(first_child, last_child) ==
            ~(/\ first_child.name = "mo" /\ is_fence(first_child)
              /\ last_child.name = "mo" /\ is_fence(last_child))
    IN  IF start = 0 /\ end = Len(kids)
        THEN IF Len(preceding) = 0 \/ Len(following) = 0 THEN TRUE
             ELSE Unfenced(preceding[Len(preceding)], following[1])
        ELSE IF start > 0 /\ end < Len(kids)
        THEN Unfenced(At(kids, start - 1), At(kids, end))
        ELSE TRUE

\* lines 1486-1531, with end already without its whitespace
LikelyFrom(preceding, following, kids, start, end) ==
    LET decimal_at_start == count_decimal_pts(kids, start, start + 1) = 1
        decimal_at_end ==
            ~(decimal_at_start \/ count_decimal_pts(kids, end - 1, end) = 0)
        Trimmed(start2, end2) ==
            IF At(kids, end2 - 1).name # "mn" THEN FALSE
            ELSE IF \/ At(kids, start2 + 1).name = "mtext"
                    \/ At(kids, start2 + 1).text \in {" ", NBSP}
            THEN SameBlockType(kids, 0, "None")
            ELSE IF /\ start2 > 1 /\ At(kids, 0).name = "mn"
                    /\ At(kids, 1).name = "mo" /\ At(kids, 1).text = ","
            THEN FALSE
            ELSE NotInFences(preceding, following, kids, start2, end2)
    IN  IF end - start < 3 THEN decimal_at_start \/ decimal_at_end
        ELSE IF decimal_at_start THEN Trimmed(start + 1, end)
        ELSE IF decimal_at_end THEN Trimmed(start, end - 1)
        ELSE Trimmed(start, end)

is_likely_a_number(preceding, following, kids, start, end) ==
    IF count_decimal_pts(kids, start, end) > 1 THEN FALSE
    ELSE LikelyFrom(preceding, following, kids, start,
                    WithoutBlankEnd(kids, start, end))

RECURSIVE BlockText(_, _, _)
BlockText(kids, start, end) ==
    IF start >= end \/ start >= Len(kids) THEN ""
    ELSE At(kids, start).text \o BlockText(kids, start + 1, end)

merge_block(kids, start, end) ==
    SubSeq(kids, 1, start)
      \o <<[At(kids, start) EXCEPT !.name = "mn",
                                       !.text = BlockText(kids, start, end)]>>
      \o SubSeq(kids, end + 1, Len(kids))

\* lines 1359-1392: the end of the block that starts at child i; sibling j is
\* child i + 1 + j
RECURSIVE BlockEnd(_, _, _, _, _, _, _, _)
BlockEnd(kids, i, start, has_decimal_pt, j, looking_for_separator, is_comma, is_decimal_pt) ==
    IF i + 1 + j >= Len(kids) THEN Len(kids)
    ELSE
    LET sibling == At(kids, i + 1 + j)
        leaf_text == sibling.text
        is_leaf_sibling == sibling.name \in {"mo", "mtext"}
        stops == /\ sibling.name # "mn"
                 /\ \/ ~is_leaf_sibling
                    \/ ~(leaf_text = "." \/ leaf_text = "," \/ IsBlank(leaf_text))
                    \/ (leaf_text = "." /\ has_decimal_pt)
        comma == IF sibling.name = "mn" THEN is_comma
                 ELSE looking_for_separator /\ leaf_text = ","
        point == IF sibling.name = "mn" THEN is_decimal_pt
                 ELSE looking_for_separator /\ leaf_text = "."
    IN  IF stops THEN start + j + 1
        ELSE IF /\ ~(looking_for_separator /\ (sibling.name = "mtext" \/ comma \/ point))
                /\ (looking_for_separator \/ ~(point \/ is_digit_block(sibling) # "None"))
        THEN start + (IF point THEN j + 2 ELSE j + 1)
        ELSE BlockEnd(kids, i, start, has_decimal_pt, j + 1,
                      ~looking_for_separator, comma, point)

\* the loop of merge_number_blocks from child i on
RECURSIVE MergeFrom(_, _, _, _)
MergeFrom(preceding, following, kids, i) ==
    IF i >= Len(kids) THEN kids
    ELSE IF At(kids, i).name # "mn" THEN MergeFrom(preceding, following, kids, i + 1)
    ELSE IF HasSeparator(At(kids, i).text)
    THEN MergeFrom(preceding, following, kids, i + 1)
    ELSE
    LET before_is_mo == i > 0 /\ At(kids, i - 1).name = "mo"
        is_comma == before_is_mo /\ At(kids, i - 1).text = ","
        is_decimal_pt == before_is_mo /\ At(kids, i - 1).text = "."
        start == IF is_decimal_pt THEN i - 1 ELSE i
        Block(end) ==
            IF is_likely_a_number(preceding, following, kids, start, end)
            THEN MergeFrom(preceding, following, merge_block(kids, start, end), i + 1)
            ELSE MergeFrom(preceding, following, kids, end)
    IN  Block(BlockEnd(kids, i, start, is_decimal_pt, 0, TRUE, is_comma, is_decimal_pt))

merge_number_blocks(preceding, following, kids) ==
    MergeFrom(preceding, following, kids, 0)

-----------------------------------------------------------------------------
(* clean_mathml, canonicalize.rs 590-948, for the elements of the documents  *)
(* below: tokens, mrow, math and the other one-child containers, mstyle,     *)
(* mpadded, mphantom and mspace.  The documents have no mfenced, semantics   *)
(* or script elements, no dashes, primes, dots or arc functions, and nothing *)
(* of chemistry, so merge_dots, merge_primes, handle_pseudo_scripts,         *)
(* handle_convert_to_mmultiscripts and the chemistry passes leave them alone.*)
(* A result is [some, node]: some = FALSE is the None of the code.           *)

Kept(node) == [some |-> TRUE, node |-> node]
Removed == [some |-> FALSE, node |-> NoNode]

make_empty_element(mathml) ==
    [mathml EXCEPT !.name = "mtext", !.children = <<>>, !.text = NBSP, !.added = FALSE,
                   !.attrs = @ \cup {"data-changed=empty_content"}]

create_empty_element ==
    [Leaf("mtext", NBSP, "", 0) EXCEPT !.attrs = {"data-added=missing-content"}]

\* is_width_ignorable of the width attribute, "0" when there is none
WideWidths == {"width=1em"}
is_width_ignorable(mathml) == mathml.attrs \cap WideWidths = {}

\* the number texts that start with a minus sign, and what follows the sign
NegativeTexts == {"-2"}
AfterMinus(text) == "2"

\* lines 481-490
assure_nary_tag_has_mrow(mathml) ==
    IF Len(mathml.children) > 1 /\ mathml.name \in ELEMENTS_WITH_ONE_CHILD
    THEN [mathml EXCEPT !.children = <<NewMrow(mathml.children)>>]
    ELSE mathml

\* an assure_math_not_empty that adds nothing
assure_math_not_empty_never(mathml) == mathml

\* lines 473-479
assure_math_not_empty(mathml) ==
    IF n_children_of(mathml) = 0
    THEN [mathml EXCEPT !.children = <<create_empty_element>>]
    ELSE mathml

\* "lift" the child up: the element takes the name, the content and the
\* attributes of new_mathml (lines 766-770, 831-835, 890-896)
Lift(mathml, new_mathml) ==
    add_attrs([mathml EXCEPT !.name = new_mathml.name, !.text = new_mathml.text,
                             !.children = new_mathml.children],
              new_mathml)

\* merge_whitespace, lines 1286-1328, from child i on
RECURSIVE merge_whitespace(_, _)
merge_whitespace(kids, i) ==
    IF i >= Len(kids) THEN kids
    ELSE IF ~(At(kids, i).name = "mtext" /\ At(kids, i).text = NBSP)
    THEN merge_whitespace(kids, i + 1)
    ELSE IF i < Len(kids) - 1 /\ At(kids, i + 1).name = "mtext"
    THEN merge_whitespace(
             SubSeq(kids, 1, i)
               \o <<IF At(kids, i + 1).text # NBSP
                    THEN [At(kids, i + 1) EXCEPT !.text = NBSP \o @]
                    ELSE At(kids, i + 1)>>
               \o SubSeq(kids, i + 3, Len(kids)),
             i)
    ELSE IF i > 0 /\ At(kids, i - 1).name \in {"mi", "mn", "mtext"}
    THEN merge_whitespace(
             SubSeq(kids, 1, i - 1)
               \o <<[At(kids, i - 1) EXCEPT !.text = @ \o NBSP]>>
               \o SubSeq(kids, i + 2, Len(kids)),
             i)
    ELSE IF i < Len(kids) - 1 /\ At(kids, i + 1).name \in {"mi", "mn"}
    THEN merge_whitespace(
             SubSeq(kids, 1, i)
               \o <<[At(kids, i + 1) EXCEPT !.text = NBSP \o @]>>
               \o SubSeq(kids, i + 3, Len(kids)),
             i + 1)
    ELSE merge_whitespace(kids, i + 1)

RECURSIVE clean_mathml(_, _, _, _), CleanChildren(_, _, _)

\* the loop of lines 859-887: done are the cleaned children, todo the others
CleanChildren(parent_name, done, todo) ==
    IF Len(todo) = 0 THEN done
    ELSE LET Next1(cleaned) ==
                 IF cleaned.some
                 THEN CleanChildren(parent_name, Append(done, cleaned.node), Tail(todo))
                 ELSE CleanChildren(parent_name, done, Tail(todo))
         IN  Next1(clean_mathml(todo[1], parent_name, done, Tail(todo)))

\* lines 823-946: the last arm of the match
CleanContainer(mathml, parent_requires_child, preceding, following) ==
    LET element_name == mathml.name
        is_row == element_name = "mrow" \/ element_name \in ELEMENTS_WITH_ONE_CHILD
        Single(new_mathml) ==
            IF new_mathml.some THEN Kept(Lift(mathml, new_mathml.node))
            ELSE IF parent_requires_child THEN Kept(make_empty_element(mathml))
            ELSE Removed
        Cleaned(kids) ==
            IF element_name = "mrow" /\ Len(kids) = 1 THEN Kept(Lift(mathml, kids[1]))
            ELSE IF is_row
            THEN Kept(assure_nary_tag_has_mrow(
                     [mathml EXCEPT !.children =
                         merge_whitespace(merge_number_blocks(preceding, following, kids), 0)]))
            ELSE Kept(assure_nary_tag_has_mrow([mathml EXCEPT !.children = kids]))
    IN  IF element_name = "mrow" /\ Len(mathml.children) = 0
        THEN (IF parent_requires_child THEN Kept(mathml) ELSE Removed)
        ELSE IF element_name = "mrow" /\ Len(mathml.children) = 1
        THEN Single(clean_mathml(mathml.children[1], "mrow", <<>>, <<>>))
        ELSE Cleaned(CleanChildren(element_name, <<>>, mathml.children))

\* lines 753-784: mstyle and mpadded
CleanStyle(mathml, parent_requires_child, preceding, following) ==
    LET Single(new_mathml) ==
            IF new_mathml.some THEN Kept(Lift(mathml, new_mathml.node))
            ELSE IF parent_requires_child THEN Kept(make_empty_element(mathml))
            ELSE Removed
    IN  IF Len(mathml.children) = 0
        THEN (IF parent_requires_child THEN Kept(make_empty_element(mathml)) ELSE Removed)
        ELSE IF Len(mathml.children) = 1
        THEN Single(clean_mathml(mathml.children[1], mathml.name, <<>>, <<>>))
        ELSE CleanContainer([mathml EXCEPT !.name = "mrow", !.added = TRUE],
                            parent_requires_child, preceding, following)

\* lines 640-751 and 785-799: the arms of the tokens, mphantom and mspace.
\* element_name is the name the element had when clean_mathml was entered.
CleanArm(mathml, element_name, parent_requires_child, preceding, following) ==
    IF element_name = "mn"
    THEN IF mathml.text \in NegativeTexts
         THEN Kept([mathml EXCEPT !.name = "mrow", !.added = TRUE, !.text = "",
                       !.children = <<mo("-"), mn(AfterMinus(mathml.text))>>])
         ELSE Kept(mathml)
    ELSE IF element_name \in {"ms", "mglyph"} THEN Kept(mathml)
    ELSE IF element_name = "mi"
    THEN IF mathml.text \in DOMAIN OPERATORS THEN Kept([mathml EXCEPT !.name = "mo"])
         ELSE Kept(mathml)
    ELSE IF element_name = "mtext"
    THEN IF mathml.text \in {" ", NBSP} THEN Kept(make_empty_element(mathml))
         ELSE IF mathml.text \in DOMAIN OPERATORS THEN Kept([mathml EXCEPT !.name = "mo"])
         ELSE IF parent_requires_child \/ mathml.text # "" THEN Kept(mathml)
         ELSE Removed
    ELSE IF element_name = "mo"
    THEN IF mathml.text \in FunctionNames \cup GeometryShapes
         THEN Kept([mathml EXCEPT !.name = "mi"])
         ELSE IF mathml.text \in {" ", NBSP} THEN Kept([mathml EXCEPT !.name = "mtext"])
         ELSE Kept(mathml)
    ELSE IF element_name \in {"mstyle", "mpadded"}
    THEN CleanStyle(mathml, parent_requires_child, preceding, following)
    ELSE IF element_name \in {"mphantom", "malignmark", "maligngroup"}
    THEN (IF parent_requires_child THEN Kept(make_empty_element(mathml)) ELSE Removed)
    ELSE IF element_name = "mspace"
    THEN (IF is_width_ignorable(mathml) THEN Removed ELSE Kept(make_empty_element(mathml)))
    ELSE CleanContainer(mathml, parent_requires_child, preceding, following)

\* lines 611-638: empty leaves and empty elements, then the match
clean_mathml(mathml, parent_name, preceding, following) ==
    LET parent_requires_child == parent_name \in ELEMENTS_WITH_FIXED_NUMBER_OF_CHILDREN
        Filled(m) ==
            IF n_children_of(m) = 0 /\ mathml.name \notin EMPTY_ELEMENTS
            THEN IF mathml.name = "mrow"
                 THEN IF ~parent_requires_child THEN Removed
                      ELSE IF parent_name = "mmultiscripts"
                      THEN Kept([m EXCEPT !.name = "none"])
                      ELSE Kept(make_empty_element(m))
                 ELSE CleanArm([m EXCEPT !.children = <<create_empty_element>>],
                               mathml.name, parent_requires_child, preceding, following)
            ELSE CleanArm(m, mathml.name, parent_requires_child, preceding, following)
    IN  IF is_leaf(mathml) /\ mathml.name \notin EMPTY_ELEMENTS /\ mathml.text = ""
        THEN (IF ~parent_requires_child THEN Removed
              ELSE Filled(make_empty_element(mathml)))
        ELSE Filled(mathml)

-----------------------------------------------------------------------------
(* canonicalize on documents that cleanup empties, canonicalize.rs 444-479  *)

mtext(text) == Leaf("mtext", text, "", 0)
mspace(attrs) == [Leaf("mspace", "", "", 0) EXCEPT !.attrs = attrs]
mphantom(kids) == Element("mphantom", {}, kids)

CleanLeaves == {mi("x"), mtext(" "), mspace({}), mspace(WideWidths), mphantom(<<mn("2")>>)}

CleanDocs ==
    {Element(n, {}, kids) : n \in {"math", "mrow", "mstyle"},
                           kids \in SiblingSeqs(CleanLeaves, MaxKids)}
      \cup {Element("math", {}, <<Element(n, {}, kids)>>) :
                n \in {"mrow", "mstyle"}, kids \in SiblingSeqs(CleanLeaves, MaxKids)}

\* line 457: self.clean_mathml(mathml).unwrap()
CleanDoc ==
    /\ cpc = "valid"
    /\ ranClean' = TRUE
    /\ LET Returned(r) ==
               /\ result' = r.node
               /\ cpc' = IF r.some THEN "cleaned" ELSE "unwrap of None"
       IN  Returned(clean_mathml(WithMathRoot(doc), "math", <<>>, <<>>))
    /\ UNCHANGED <<doc, ranGroup, children, i_child, parse_stack, pc, panic, second,
                   lastFind, input_mrow, ctx>>

\* lines 458-459: assure_math_not_empty, assure_nary_tag_has_mrow
AssureNotEmpty ==
    /\ cpc = "cleaned"
    /\ result' = assure_nary_tag_has_mrow(assure_math_not_empty(result))
    /\ cpc' = "filled"
    /\ UNCHANGED <<doc, ranClean, ranGroup, children, i_child, parse_stack, pc, panic,
                   second, lastFind, input_mrow, ctx>>

\* lines 460-467: canonicalize_mrows, and once more for a tree without chemistry
GroupDoc ==
    /\ cpc = "filled"
    /\ ranGroup' = TRUE
    /\ LET Returned(r) ==
               /\ panic' = r.panic
               /\ result' = r.node
               /\ cpc' = IF r.panic = "none" THEN "grouped" ELSE "panic"
           Again(r) ==
               IF r.panic # "none" THEN Returned(r)
               ELSE Returned(canonicalize_mrows(assure_nary_tag_has_mrow(r.node), ctx))
       IN  Again(canonicalize_mrows(result, ctx))
    /\ UNCHANGED <<doc, ranClean, children, i_child, parse_stack, pc, second, lastFind,
                   input_mrow, ctx>>

NextClean == Validate \/ CleanDoc \/ AssureNotEmpty \/ GroupDoc

InitClean ==
    /\ doc \in CleanDocs
    /\ cpc = "start"
    /\ ranClean = FALSE
    /\ ranGroup = FALSE
    /\ children = <<>>
    /\ input_mrow = InputMrow(<<>>, {})
    /\ ctx = "other"
    /\ i_child = 1
    /\ parse_stack = <<StackInfoNew>>
    /\ pc = "idle"
    /\ panic = "none"
    /\ result = NoNode
    /\ second = NoNode
    /\ lastFind = NoFind

SpecClean == InitClean /\ [][NextClean]_vars

\* cleanup removes the element when its parent does not require a child
RECURSIVE Vanishes(_)
Vanishes(node) ==
    \/ node.name = "mphantom"
    \/ node.name = "mspace" /\ node.attrs \cap WideWidths = {}
    \/ node.name = "mrow" /\ Len(node.children) = 0
    \/ node.name \in {"mrow", "mstyle"} /\ Len(node.children) = 1
          /\ Vanishes(node.children[1])

\* the math element of the input has no children, or only children that
\* cleanup removes
MathEmptied ==
    /\ doc.name = "math"
    /\ \A k \in 1..Len(doc.children) : Vanishes(doc.children[k])

IsPlaceholder(node) ==
    node.name = "mtext" /\ node.text = NBSP /\ Len(node.children) = 0

-----------------------------------------------------------------------------
(* merge_number_blocks on the cleaned children of an mrow, lines 1331-1410  *)

NumberTokens == {mn("8"), mn("123"), mo(","), mo("("), mi("x")}

\* the mrow alone, between parentheses, and after an identifier
NumberContexts(mrow) ==
    {<<mrow>>, <<mo("("), mrow, mo(")")>>, <<mi("x"), mrow, mo(")")>>}

preceding_siblings == IF Len(doc.children) = 3 THEN <<doc.children[1]>> ELSE <<>>
following_siblings == IF Len(doc.children) = 3 THEN <<doc.children[3]>> ELSE <<>>

\* line 900: merge_number_blocks(mathml, &mut children)
MergeNumbers ==
    /\ pc = "numbers"
    /\ result' = [input_mrow EXCEPT !.children =
                     merge_number_blocks(preceding_siblings, following_siblings, @)]
    /\ pc' = "merged"
    /\ UNCHANGED <<children, i_child, parse_stack, panic, second, lastFind, input_mrow,
                   ctx, canonVars>>

InitNumbers ==
    /\ \E kids \in SiblingSeqs(NumberTokens, MaxRun) :
          /\ input_mrow = InputMrow(kids, {})
          /\ \E around \in NumberContexts(InputMrow(kids, {})) :
                doc = Element("mrow", {}, around)
    /\ pc = "numbers"
    /\ cpc = "idle"
    /\ ranClean = FALSE
    /\ ranGroup = FALSE
    /\ children = <<>>
    /\ ctx = "other"
    /\ i_child = 1
    /\ parse_stack = <<StackInfoNew>>
    /\ panic = "none"
    /\ result = NoNode
    /\ second = NoNode
    /\ lastFind = NoFind

SpecNumbers == InitNumbers /\ [][MergeNumbers]_vars

IsCommaOp(node) == node.name = "mo" /\ node.text = ","
IsPlainNumber(node) == node.name = "mn" /\ node.text \in PlainNumberTexts
IsFenceOp(node) == node.name = "mo" /\ node.text \in {"(", ")", "[", "]"}

\* children s .. e-1 (counted from 0) are number leaves separated by commas,
\* every one after a comma with three digits, and no comma is next to them
IsCommaRun(kids, s, e) ==
    /\ e - s >= 3
    /\ (e - s) % 2 = 1
    /\ \A k \in s..(e - 1) :
          IF (k - s) % 2 = 0
          THEN /\ IsPlainNumber(At(kids, k))
               /\ k > s => At(kids, k).text \in ThreeDigitTexts
          ELSE IsCommaOp(At(kids, k))
    /\ ~(s > 0 /\ IsCommaOp(At(kids, s - 1)))
    /\ ~(e < Len(kids) /\ IsCommaOp(At(kids, e)))

\* a fence operator stands on both sides of children s .. e-1: next to them
\* in the mrow or, when they are all of the mrow, next to the mrow
FencedOnBothSides(kids, s, e) ==
    IF s > 0 /\ e < Len(kids)
    THEN IsFenceOp(At(kids, s - 1)) /\ IsFenceOp(At(kids, e))
    ELSE /\ s = 0 /\ e = Len(kids)
         /\ Len(preceding_siblings) > 0 /\ IsFenceOp(preceding_siblings[1])
         /\ Len(following_siblings) > 0 /\ IsFenceOp(following_siblings[1])

AsOneLeaf(kids, s, e) ==
    \E k \in 1..Len(result.children) :
        /\ result.children[k].name = "mn"
        /\ result.children[k].text = BlockText(kids, s, e)

AsSeparateLeaves(kids, s, e) ==
    \E k \in 0..(Len(result.children) - (e - s)) :
        SubSeq(result.children, k + 1, k + e - s) = SubSeq(kids, s + 1, e)

\* C18: a run of number leaves separated by commas, whose blocks after a comma
\* are digit blocks, is one number leaf with the concatenated text after
\* merge_number_blocks, unless a fence operator stands on both sides of the
\* run: then its leaves stay separate.
C18_MergesCommaRuns ==
    pc = "merged" =>
        \A s \in 0..Len(input_mrow.children) : \A e \in s..Len(input_mrow.children) :
            IsCommaRun(input_mrow.children, s, e) =>
                IF FencedOnBothSides(input_mrow.children, s, e)
                THEN AsSeparateLeaves(input_mrow.children, s, e)
                ELSE AsOneLeaf(input_mrow.children, s, e)

-----------------------------------------------------------------------------
(* is_function_name on a name and what follows it, canonicalize.rs 2556-2662 *)

Marked(node) == [node EXCEPT !.chem = TRUE]

NameNodes ==
    {mi("sin"), mi("Sin"), mi("triangle"), mi("f"), mi("x"), mi("Tr"), Marked(mi("x"))}

FollowerTokens ==
    {mo("("), mo("["), mo(")"), mo(","), mi("x"), Marked(mi("x")),
     InputMrow(<<mi("x"), mi("x")>>, {})}

\* the right siblings: some leaves and groups, or one mrow around them
RightSiblings ==
    SiblingSeqs(FollowerTokens, MaxLen)
      \cup {<<InputMrow(kids, {})>> : kids \in SiblingSeqs(FollowerTokens, MaxLen) \ {<<>>}}

\* self.is_function_name(node, right_siblings), with None when the name is
\* asked about alone
AskName ==
    /\ pc = "name"
    /\ lastFind' = [called |-> TRUE,
                    certainty |-> is_function_name(children[1],
                                      IF IsSome(input_mrow)
                                      THEN Some(Tail(children)) ELSE None)]
    /\ pc' = "named"
    /\ UNCHANGED <<children, i_child, parse_stack, panic, result, second, input_mrow,
                   ctx, canonVars>>

InitName ==
    /\ \E node \in NameNodes :
          \/ children = <<node>> /\ input_mrow = NoNode
          \/ \E rs \in RightSiblings :
                /\ children = <<node>> \o rs
                /\ input_mrow = InputMrow(<<node>> \o rs, {})
    /\ pc = "name"
    /\ cpc = "idle"
    /\ doc = NoNode
    /\ ranClean = FALSE
    /\ ranGroup = FALSE
    /\ ctx = "other"
    /\ i_child = 1
    /\ parse_stack = <<StackInfoNew>>
    /\ panic = "none"
    /\ result = NoNode
    /\ second = NoNode
    /\ lastFind = NoFind

SpecName == InitName /\ [][AskName]_vars

\* the name is a known function name, whatever its case, or a geometric shape
IsKnownName(node) ==
    \/ node.text \in FunctionNames
    \/ node.text = "Sin"
    \/ node.text \in GeometryShapes

\* the leaves that follow the name, the groups that start with ( or [ opened
RECURSIVE Opened(_)
Opened(rs) ==
    IF Len(rs) > 0 /\ rs[1].name = "mrow" /\ Len(rs[1].children) > 0
       /\ rs[1].children[1].name = "mo" /\ rs[1].children[1].text \in {"(", "["}
    THEN Opened(rs[1].children)
    ELSE rs

FollowedByOpen(rs) ==
    Len(rs) > 0 /\ rs[1].name = "mo" /\ rs[1].text \in {"(", "["}

Closes(open, node) ==
    node.name = "mo" /\ ((open = "(" /\ node.text = ")") \/ (open = "[" /\ node.text = "]"))

\* args follow the opening fence: one argument or none before the closing one
SingleArgument(open, args) ==
    \/ Len(args) >= 1 /\ Closes(open, args[1])
    \/ Len(args) >= 2 /\ args[1].name # "mrow" /\ Closes(open, args[2])

\* a comma among the arguments, before the first closing fence
CommaInArguments(open, args) ==
    \E k \in 1..Len(args) :
        /\ args[k].name = "mo" /\ args[k].text = ","
        /\ \A m \in 1..(k - 1) : ~Closes(open, args[m])

\* one of the conditions that make a name in front of an opening fence a
\* function name
TrueCondition(node, rs) ==
    \/ node.text \in LikelyFunctionNames
    \/ SingleArgument(rs[1].text, Tail(rs))
    \/ CommaInArguments(rs[1].text, Tail(rs))
    \/ node.text \in UppercaseMultiCharNames

\* the demotion of a marked name in front of a marked argument
ChemistryDemotion(node, rs) == node.chem /\ Len(rs) >= 2 /\ rs[2].chem

KnownIsTrue ==
    pc = "named" /\ IsKnownName(children[1]) => lastFind.certainty = "True"

NoFenceIsFalse ==
    pc = "named" /\ ~IsKnownName(children[1])
      /\ ~(IsSome(input_mrow) /\ FollowedByOpen(Opened(Tail(children))))
      => lastFind.certainty = "False"

MaybeOnlyUndecided ==
    pc = "named" /\ lastFind.certainty = "Maybe" =>
        /\ IsSome(input_mrow)
        /\ FollowedByOpen(Opened(Tail(children)))
        /\ ~IsKnownName(children[1])
        /\ ~TrueCondition(children[1], Opened(Tail(children)))
        /\ ~ChemistryDemotion(children[1], Opened(Tail(children)))

\* C19: is_function_name answers True for a known function name, whatever
\* its case, and for a geometric shape, whatever follows; False for any
\* other name that no ( or [ follows; and Maybe only when an opening fence
\* follows, the name is not a likely function name, the fence holds neither
\* one argument or none nor a comma, the name is not a word that starts with
\* a capital, and the chemistry marks do not turn the answer to False.
C19_FunctionNameAnswers == KnownIsTrue /\ NoFenceIsFalse /\ MaybeOnlyUndecided

C19_Witness ==
    /\ pc = "named"
    /\ lastFind.certainty = "Maybe"
    /\ Len(children) >= 4
    /\ children[2].text = "("

-----------------------------------------------------------------------------
(* reduce_stack on the stacks of the scan, canonicalize.rs 2940-2970 *)

\* the priorities reduce_stack is asked with: 0 for the end of the input, and
\* those of the frames, one less and one more
PrioritiesAround(stack) ==
    {0} \cup UNION {{f.op_pair.op.priority, f.op_pair.op.priority + 1}
                     \cup (IF f.op_pair.op.priority > 0
                           THEN {f.op_pair.op.priority - 1} ELSE {})
                   : f \in {stack[k] : k \in 1..Len(stack)}}

\* frames k and above as one operand: the children of frame k, then the
\* operand of the frames above it; a single child stands for itself
RECURSIVE Folded(_, _)
Folded(stack, k) ==
    LET AsOperand(kids) == IF Len(kids) = 1 THEN kids[1] ELSE NewMrow(kids)
    IN  IF k = Len(stack) THEN AsOperand(stack[k].mrow)
        ELSE AsOperand(Append(stack[k].mrow, Folded(stack, k + 1)))

\* stack is what reduce_stack was given with priority p, reduced what it left
ReducedAsStated(stack, p, reduced) ==
    LET n == Len(stack)
        m == Len(reduced)
    IN  /\ 1 <= m /\ m <= n
        /\ \A k \in (m + 1)..n : stack[k].op_pair.op.priority > p
        /\ m = 1 \/ reduced[m].op_pair.op.priority <= p
        /\ \A k \in 1..(m - 1) : reduced[k] = stack[k]
        /\ IF m = n THEN reduced[m] = stack[m]
           ELSE /\ reduced[m].mrow = Append(stack[m].mrow, Folded(stack, m + 1))
                /\ reduced[m].is_operand
                /\ reduced[m].op_pair = stack[m].op_pair

\* C20: reduce_stack pops a frame only while the priority of the top frame is
\* greater than p and more than one frame is left; when it returns one frame
\* is left or the priority of the top frame is at most p; the frames below
\* are untouched, every popped frame is the last child of the frame below
\* it, which then ends in an operand, and the children keep their order.
C20_ReduceStack ==
    pc = "scan" /\ panic = "none" =>
        \A p \in PrioritiesAround(parse_stack) :
            LET Holds(r) == r.panic = "none" => ReducedAsStated(parse_stack, p, r.stack)
            IN  Holds(reduce_stack([stack |-> parse_stack, panic |-> "none"], p))

\* three frames are popped and a frame above the bottom one is left
C20_Witness ==
    /\ pc = "scan" /\ panic = "none"
    /\ \E p \in PrioritiesAround(parse_stack) :
          LET Stops(r) == /\ r.panic = "none"
                          /\ Len(r.stack) >= 2
                          /\ Len(r.stack) + 2 <= Len(parse_stack)
          IN  Stops(reduce_stack([stack |-> parse_stack, panic |-> "none"], p))

-----------------------------------------------------------------------------
(* The n-ary merge of shift_stack, canonicalize.rs 2886 and 206-218 *)

\* an operand, an addition, a multiplication and two tokens that the operator
\* dictionary does not have
UnknownTokens == {mi("x"), mo("+"), mo("times"), mo("@"), mo("#")}

InitUnknown == InitScan(UnknownTokens, MaxArith, {{}}, {"other"})

SpecUnknown == InitUnknown /\ [][Next]_vars

\* the identical token, both + or -, or both a multiplication
SameFamily(a, b) ==
    \/ a = b
    \/ {a, b} \subseteq {"+", "-"}
    \/ {a, b} \subseteq {"times", "IT"}

\* a step of the loop on an infix operator (lines 3174-3177): reduce_stack,
\* then a shift_stack that pushes no frame and leaves the frames as they are,
\* then the operator is added to the top frame
MergesIntoTop(reduced) ==
    /\ Len(parse_stack') = Len(reduced.stack)
    /\ top(parse_stack').mrow = Append(top(reduced.stack).mrow, children'[i_child])

InfixStep ==
    /\ pc = "scan" /\ pc' = "scan" /\ i_child <= Len(children) /\ i_child' = i_child + 1
    /\ children[i_child].name = "mo"
    /\ lastFind'.called
    /\ is_infix(lastFind'.result)

MergeOnlyInFamily ==
    LET Within(reduced) ==
            MergesIntoTop(reduced) =>
                SameFamily(top(reduced.stack).op_pair.ch, children[i_child].text)
    IN  InfixStep => Within(reduce_stack(StOf(ScanState), lastFind'.result.priority))

\* C21: shift_stack adds an operator to the top frame without a push only when
\* it and the operator of the frame are the identical token, both + or -, or
\* both a multiplication; two different tokens outside these families, also
\* two that the operator dictionary does not have, always start a new frame.
C21_NaryOnlyWithinFamilies == [][MergeOnlyInFamily]_vars

-----------------------------------------------------------------------------
(* The role of an operator from its position, canonicalize.rs 2366-2381 and  *)
(* 3087-3093                                                                  *)

\* an operand, a function name, a sign and a postfix operator
RoleTokens == {mi("x"), mi("sin"), mo("-"), mo("!")}

InitRole == InitScan(RoleTokens, MaxLen, {{}}, {"other"})

SpecRole == InitRole /\ [][Next]_vars

\* the top frame ends in an operand, or its last operator is postfix
OperandOnLeft(stack) == top(stack).is_operand \/ is_postfix(top(stack).op_pair.op)

\* the next sibling is there and is not an operator
OperandOnRight(kids, i) == i + 1 <= Len(kids) /\ IsOperandToken(kids[i + 1])

NextSibling(kids, i) == IF i + 1 <= Len(kids) THEN kids[i + 1] ELSE NoNode

RoleAsStated(on_left, on_right) ==
    IF on_left /\ on_right THEN INFIX
    ELSE IF ~on_left /\ on_right THEN PREFIX
    ELSE IF on_left /\ ~on_right THEN POSTFIX
    ELSE INFIX

\* the step of the loop on an operator without a form attribute and without a
\* function name next to it
PositionStep ==
    /\ pc = "scan" /\ i_child <= Len(children) /\ i_child' = i_child + 1
    /\ children[i_child].name = "mo" /\ children[i_child].form = ""
    /\ ~IsFunctionNeighbour(NextSibling(children, i_child))
    /\ ~IsFunctionNeighbour(last_child_in_mrow(top(parse_stack)))

RoleOfStep ==
    PositionStep =>
        /\ lastFind'.called
        /\ lastFind'.mo = children[i_child]
        /\ RoleFromPosition(lastFind') =
              RoleAsStated(OperandOnLeft(parse_stack), OperandOnRight(children, i_child))
        /\ (children[i_child].text = "-" /\ RoleFromPosition(lastFind') = PREFIX)
              => ptr_eq(lastFind'.result, PREFIX_MINUS)
        /\ (children[i_child].text = "-" /\ RoleFromPosition(lastFind') = INFIX)
              => ptr_eq(lastFind'.result, MINUS)

\* - a - b
IsMinusAMinusB(kids) ==
    /\ Len(kids) = 4
    /\ IsMo(kids[1], {"-"}) /\ kids[2].name = "mi" /\ kids[2].text = "x"
    /\ IsMo(kids[3], {"-"}) /\ kids[4].name = "mi" /\ kids[4].text = "x"

\* (- a) - b: the group of the first minus and a, the second minus, b
PrefixThenInfix ==
    (pc = "done" /\ IsMinusAMinusB(input_mrow.children)) =>
        /\ result.name = "mrow" /\ Len(result.children) = 3
        /\ result.children[1].name = "mrow" /\ result.children[1].added
        /\ Len(result.children[1].children) = 2
        /\ result.children[1].children[1].id = 1
        /\ result.children[1].children[2].id = 2
        /\ result.children[2].id = 3
        /\ result.children[3].id = 4

\* C22: for an operator without a form attribute and without a function name
\* next to it the role from the position is infix with an operand on the left
\* (the top frame ends in an operand, or its last operator is postfix) and an
\* operand as the next sibling, prefix with no operand on the left and an
\* operand as the next sibling, postfix with an operand on the left and no
\* operand as the next sibling, and infix otherwise; - a - b is (- a) - b.
C22_RoleFromPosition == [][RoleOfStep]_vars /\ []PrefixThenInfix

\* - a - b has been scanned into the group of the prefix minus, the infix
\* minus and b
C22_Witness ==
    /\ pc = "done" /\ IsMinusAMinusB(input_mrow.children)
    /\ Len(result.children) = 3
    /\ Len(result.children[1].children) = 2
    /\ IsMo(result.children[1].children[1], {"-"})
    /\ IsMo(result.children[2], {"-"})

-----------------------------------------------------------------------------
(* A vertical bar after an operand, canonicalize.rs 2483-2511 *)

\* the input of the test vertical_bars_nested (lines 3932-3953)
VerticalBarsNested ==
    <<mo("|"), mi("x"), mo("|"), mi("y"), mo("|"), mi("z"), mo("|")>>

InitNested ==
    /\ \E kids \in SiblingSeqs(BarTokens, MaxLen) \cup {VerticalBarsNested} :
          /\ children = WithIds(kids)
          /\ input_mrow = InputMrow(WithIds(kids), {})
    /\ ctx = "other"
    /\ i_child = 1
    /\ parse_stack = <<StackInfoNew>>
    /\ pc = "scan"
    /\ panic = "none"
    /\ result = NoNode
    /\ second = NoNode
    /\ lastFind = NoFind
    /\ doc = NoNode
    /\ cpc = "idle"
    /\ ranClean = FALSE
    /\ ranGroup = FALSE

SpecNested == InitNested /\ [][Next]_vars

BarInfix == OperatorVersion(OPERATORS["|"], "infix")

\* the bars among the siblings after child i
BarsOnRight(kids, i) == Cardinality({k \in (i + 1)..Len(kids) : IsBar(kids[k])})

\* the step on a bar that follows an operand, is not the last child and has
\* no opening bar on the top frame or on the frame below it
BarAfterOperandStep ==
    /\ BarStep
    /\ ~WantsOperand(parse_stack)
    /\ i_child < Len(children)
    /\ ~HasOpenBar(parse_stack)

OddBarOpens ==
    (BarAfterOperandStep /\ BarsOnRight(children, i_child) % 2 = 1) =>
        /\ ptr_eq(ChosenBar, BarPrefix) /\ is_left_fence(ChosenBar)
        /\ pc' = "scan"
        /\ ptr_eq(top(parse_stack').op_pair.op, BarPrefix)
        /\ Len(top(parse_stack').mrow) = 1
        /\ top(parse_stack').mrow[1].id = i_child

\* the group | child |, child being the input leaf of that id
IsBarGroup(node, id) ==
    /\ node.name = "mrow" /\ Len(node.children) = 3
    /\ IsBar(node.children[1]) /\ node.children[1].id = id - 1
    /\ node.children[2].id = id
    /\ IsBar(node.children[3]) /\ node.children[3].id = id + 1

\* | x | y | z | is |x| times y times |z|
NestedGroups ==
    (pc = "done" /\ Len(input_mrow.children) = 7) =>
        /\ result.name = "mrow" /\ Len(result.children) = 5
        /\ IsBarGroup(result.children[1], 2)
        /\ IsAdded(result.children[2], "IT")
        /\ result.children[3].id = 4
        /\ IsAdded(result.children[4], "IT")
        /\ IsBarGroup(result.children[5], 6)

\* C23: a vertical bar that follows an operand, is not the last child and has
\* no opening bar on the top frame or the frame below it is an opening fence
\* when the number of bars after it in the group is odd; it then opens a
\* frame of its own, and | x | y | z | is |x| times y times |z|.
C23_OddBarOpens == [][OddBarOpens]_vars /\ []NestedGroups

\* the test input has been scanned; its third bar was met after the operand y
\* with one bar to come
C23_Witness ==
    /\ pc = "done" /\ Len(input_mrow.children) = 7
    /\ Len(result.children) = 5
    /\ IsBarGroup(result.children[5], 6)

-----------------------------------------------------------------------------
(* The last rule for a vertical bar, canonicalize.rs 2489-2511 *)

\* the operator of the next sibling as lines 2490-2497 look it up: NoOp for
\* an operand
NextSiblingOperator ==
    LET next_child == get_possible_embellished_node(NextSibling(children, i_child))
    IN  IF next_child.name # "mo" THEN NoOp
        ELSE find_operator(next_child, BarInfix, last_child_in_mrow(top(parse_stack)),
                           NextSibling(children, i_child + 1))

\* the next sibling is an operator that is a left fence or a prefix operator:
\* it will be the start of an operand
NextStartsOperand ==
    /\ IsSomeOp(NextSiblingOperator)
    /\ is_left_fence(NextSiblingOperator) \/ is_prefix(NextSiblingOperator)

\* the next sibling is an operator of another kind
NextIsOperator == IsSomeOp(NextSiblingOperator) /\ ~NextStartsOperand

\* the step on a bar that none of the earlier rules decides
EvenBarStep ==
    /\ BarAfterOperandStep
    /\ BarsOnRight(children, i_child) % 2 = 0

\* what the step does with a closing bar and with an infix bar
ClosesGroup ==
    /\ ptr_eq(ChosenBar, BarPostfix) /\ is_right_fence(ChosenBar)
    /\ pc' = "scan" => EndsWithChild(last_child_in_mrow(top(parse_stack')), i_child)

StaysInfix ==
    /\ ptr_eq(ChosenBar, BarInfix) /\ is_infix(ChosenBar)
    /\ pc' = "scan" =>
          /\ ptr_eq(top(parse_stack').op_pair.op, BarInfix)
          /\ last_child_in_mrow(top(parse_stack')).id = i_child

LastRuleAsStated ==
    EvenBarStep => IF NextStartsOperand THEN ClosesGroup ELSE StaysInfix

LastRule ==
    EvenBarStep => IF NextIsOperator THEN ClosesGroup ELSE StaysInfix

\* C24 as stated: before a left fence or a prefix operator the bar is a
\* closing fence, before an operand or another kind of operator it is infix
C24_LastBarRule_AsStated == [][LastRuleAsStated]_vars

\* C24: when none of the earlier rules applies (an operand on the left, no
\* opening bar to match, a sibling follows, an even number of bars remains)
\* the bar is a closing fence if the next sibling is an operator that is
\* neither a left fence nor a prefix operator, and infix otherwise (the next
\* sibling is an operand, a left fence or a prefix operator).
C24_LastBarRule == [][LastRule]_vars

\* x | + x has been scanned: the bar, in front of a prefix +, was infix
C24_Witness ==
    /\ pc = "done" /\ Len(input_mrow.children) = 4
    /\ IsBar(input_mrow.children[2]) /\ IsMo(input_mrow.children[3], {"+"})
    /\ input_mrow.children[1].name = "mi" /\ input_mrow.children[4].name = "mi"
    /\ result.name = "mrow" /\ Len(result.children) = 3
    /\ IsBar(result.children[2])
    /\ result.children[3].name = "mrow" /\ Len(result.children[3].children) = 2

-----------------------------------------------------------------------------
(* The choice of the implied operator, canonicalize.rs 3109-3124 *)

\* a number, a slash, a trig function name, a capital, and the capital, the
\* number and the name with the chemistry mark
ImpliedTokens ==
    {mn("2"), mo("/"), mi("sin"), mi("A"), Marked(mi("A")), Marked(mn("2")),
     Marked(mi("sin"))}

InitImplied == InitScan(ImpliedTokens, MaxLen, {{}}, {"script", "other"})

SpecImplied == InitImplied /\ [][Next]_vars

BothNumbers(prev, current) == prev.name = "mn" /\ current.name = "mn"

BothSingleCapitals(prev, current) ==
    /\ prev.name = "mi" /\ current.name = "mi"
    /\ prev.text \in SingleCapitals /\ current.text \in SingleCapitals

\* the operator of the first rule that matches for the operand on top of the
\* stack and child i
FirstMatchingRule(stack, kids, i, current, mrow_ctx) ==
    LET prev == last_child_in_mrow(top(stack))
        n == Len(kids)
    IN  IF is_function_name(prev, Some(SubSeq(kids, i, n))) = "True"
        THEN OperatorPair("FA", INVISIBLE_FUNCTION_APPLICATION)
        ELSE IF is_mixed_fraction(prev, SubSeq(kids, i, n)).res
        THEN OperatorPair("IP", IMPLIED_INVISIBLE_PLUS)
        ELSE IF BothNumbers(prev, current) /\ mrow_ctx = "script"
        THEN OperatorPair("IC", IMPLIED_INVISIBLE_COMMA)
        ELSE IF is_implied_chemical_bond(prev, current,
                    SubSeq(top(stack).mrow, 1, Len(top(stack).mrow) - 1),
                    SubSeq(kids, i + 1, n))
        THEN OperatorPair("IC", IMPLIED_CHEMICAL_BOND)
        ELSE IF BothSingleCapitals(prev, current)
        THEN OperatorPair("IC", IMPLIED_SEPARATOR_HIGH_PRIORITY)
        ELSE IF is_trig_arg(get_possible_embellished_node(prev),
                            get_possible_embellished_node(current),
                            [stack |-> stack, panic |-> "none"]).res
        THEN OperatorPair("IT", IMPLIED_TIMES_HIGH_PRIORITY)
        ELSE OperatorPair("IT", IMPLIED_TIMES)

\* the step on the second of two operands inserts the operator of the first
\* matching rule: it is the operator of the top frame and stands in front of
\* the child
InsertsFirstMatch ==
    LET Inserted(rule) ==
            /\ top(parse_stack').op_pair = rule
            /\ Len(top(parse_stack').mrow) >= 3
            /\ IsAdded(top(parse_stack').mrow[Len(top(parse_stack').mrow) - 1], rule.ch)
            /\ last_child_in_mrow(top(parse_stack')) = children'[i_child]
    IN  TwoOperandsStep =>
            Inserted(FirstMatchingRule(parse_stack, children, i_child, children'[i_child],
                                       ctx))

\* the second child of the container after canonicalize_mrows
SlotOf(container) == canonicalize_mrows(container, "other").node.children[2]

TwoNumbers == InputMrow(<<mn("1"), mn("2")>>, {})

\* the tests implied_comma and no_implied_comma (lines 3885-3901)
CommaInScriptOnly ==
    /\ Len(SlotOf(Element("msub", {}, <<mi("b"), TwoNumbers>>)).children) = 3
    /\ IsAdded(SlotOf(Element("msub", {}, <<mi("b"), TwoNumbers>>)).children[2], "IC")
    /\ Len(SlotOf(Element("mfrac", {}, <<mi("b"), TwoNumbers>>)).children) = 3
    /\ IsAdded(SlotOf(Element("mfrac", {}, <<mi("b"), TwoNumbers>>)).children[2], "IT")

\* C25: between two adjacent operands the scan inserts the operator of the
\* first rule that matches, in the order function application, mixed-fraction
\* plus, invisible comma (two numbers in a script position), chemical bond,
\* elevated separator (two single capitals), elevated multiplication of a
\* trig argument, ordinary implied multiplication; two numbers get the
\* invisible comma in a subscript and the multiplication in a fraction.
C25_ImpliedOperatorOrder == [][InsertsFirstMatch]_vars /\ []CommaInScriptOnly

\* 2 2 / 2 in a script position: the mixed-fraction plus was inserted although
\* the two numbers also match the rule of the invisible comma
C25_Witness ==
    /\ pc = "done" /\ ctx = "script"
    /\ Len(input_mrow.children) = 4
    /\ \A k \in {1, 2, 4} : input_mrow.children[k] = [mn("2") EXCEPT !.id = k]
    /\ IsSlash(input_mrow.children[3])
    /\ result.name = "mrow" /\ Len(result.children) = 3
    /\ IsAdded(result.children[2], "IP")

-----------------------------------------------------------------------------
(* A right fence in shift_stack, canonicalize.rs 2896-2918 *)

\* the step of the loop on a closing fence
RightFenceStep ==
    /\ pc = "scan" /\ i_child <= Len(children) /\ i_child' = i_child + 1
    /\ IsMo(children[i_child], RightFenceTexts)
    /\ lastFind'.called

BeginsWithOpen(kids) == IsMo(kids[1], LeftFenceTexts)

\* the frames below the top n of them are as they were
SameBelow(stack, kept) == SubSeq(parse_stack', 1, kept) = SubSeq(stack, 1, kept)

\* the completed group is the last child, an operand, of the new top frame
HandsBack(group) ==
    /\ pc' = "scan"
    /\ Len(parse_stack') >= 1
    /\ last_child_in_mrow(top(parse_stack')) = group
    /\ top(parse_stack').is_operand

\* C26 as stated, for the stack that reduce_stack left: the top frame is
\* popped and its group with the closing token is handed back; the depth is
\* unchanged if the group does not begin with an opening fence, one less if
\* it does
ClosesAsStated(stack) ==
    LET n == Len(stack)
        kids == Append(top(stack).mrow, children'[i_child])
    IN  Len(top(stack).mrow) > 0 =>
            /\ HandsBack(NewMrow(kids))
            /\ Len(parse_stack') = IF BeginsWithOpen(kids) THEN n - 1 ELSE n

\* what the code does
ClosesFrame(stack) ==
    LET n == Len(stack)
        kids == Append(top(stack).mrow, children'[i_child])
    IN  Len(top(stack).mrow) > 0 =>
            IF top(stack).op_pair.ch = children[i_child].text
            THEN /\ pc' = "scan"
                 /\ Len(parse_stack') = n
                 /\ top(parse_stack').mrow = kids
                 /\ SameBelow(stack, n - 1)
            ELSE IF Len(kids) > 3
            THEN pc' = "panic" /\ panic' = CloseFenceChildren
            ELSE IF Len(kids) = 2 /\ ~BeginsWithOpen(kids)
            THEN /\ HandsBack(NewMrow(kids))
                 /\ Len(parse_stack') = n
                 /\ top(parse_stack').mrow = <<NewMrow(kids)>>
                 /\ SameBelow(stack, n - 1)
            ELSE /\ HandsBack(NewMrow(kids))
                 /\ Len(parse_stack') = n - 1
                 /\ top(parse_stack').mrow = Append(stack[n - 1].mrow, NewMrow(kids))
                 /\ SameBelow(stack, n - 2)

RightFenceAsStated ==
    RightFenceStep =>
        ClosesAsStated(reduce_stack(StOf(ScanState), lastFind'.result.priority).stack)

RightFenceCloses ==
    RightFenceStep =>
        ClosesFrame(reduce_stack(StOf(ScanState), lastFind'.result.priority).stack)

-----------------------------------------------------------------------------
(* The implied operator before a left fence or a prefix operator,            *)
(* canonicalize.rs 3150-3175                                                  *)

\* the step of the loop on a left fence or a prefix operator that follows an
\* operand
ImpliedBeforeFenceStep ==
    /\ pc = "scan" /\ i_child <= Len(children) /\ i_child' = i_child + 1
    /\ pc' = "scan"
    /\ children[i_child].name = "mo"
    /\ lastFind'.called
    /\ is_left_fence(lastFind'.result) \/ is_prefix(lastFind'.result)
    /\ top(parse_stack).is_operand

\* the frames under the new frame of the fence are those that a reduce to the
\* priority of the implied operator followed by its shift leaves
ReducedThenShifted(frame) ==
    SubSeq(parse_stack', 1, Len(parse_stack') - 1)
        = ShiftImplied(reduce_stack(StOf(ScanState), frame.op_pair.op.priority),
                       last_child_in_mrow(frame).text, frame.op_pair.op,
                       last_child_in_mrow(frame).guess).stack

ReducedFirst ==
    ImpliedBeforeFenceStep =>
        /\ Len(parse_stack') >= 2
        /\ ReducedThenShifted(parse_stack'[Len(parse_stack') - 1])

\* C27: an implied operator inserted between an operand and a following
\* opening fence or prefix operator is grouped as an explicit infix operator
\* of its priority would be: the stack is reduced to its priority before it
\* is shifted.
C27_ImpliedBeforeFenceReduced == [][ReducedFirst]_vars

-----------------------------------------------------------------------------
(* The panic of the right-fence branch, canonicalize.rs 2886-2918 *)

\* the group that the right-fence branch completes has at most three children
GroupOfAtMostThree(stack) ==
    (Len(top(stack).mrow) > 0 /\ top(stack).op_pair.ch # children[i_child].text)
        => Len(top(stack).mrow) + 1 <= 3

SmallGroupStep ==
    RightFenceStep =>
        GroupOfAtMostThree(reduce_stack(StOf(ScanState), lastFind'.result.priority).stack)

\* C28: for every sibling sequence the group popped in the right-fence branch
\* of shift_stack has at most three children once the closing token is
\* appended, and the scan never stops with "Wrong number of children in mrow
\* when handling a close fence".
C28_CloseFencePanicUnreachable ==
    [][SmallGroupStep]_vars /\ [](panic # CloseFenceChildren)

-----------------------------------------------------------------------------
(* Two infix operators of equal priority, canonicalize.rs 2886-2949 *)

EqualTokens == {mi("x"), mo("="), mo("<"), mo("+")}

InitEqual == InitScan(EqualTokens, MaxArith, {{}}, {"other"})

SpecEqual == InitEqual /\ [][Next]_vars

\* the step of the loop on an infix operator B whose left operand is the right
\* operand of an infix operator A of the same priority that B does not merge
\* with
EqualPriorityStep ==
    /\ pc = "scan" /\ i_child <= Len(children) /\ i_child' = i_child + 1
    /\ children[i_child].name = "mo"
    /\ lastFind'.called
    /\ lastFind'.result.op_type = INFIX
    /\ top(parse_stack).is_operand
    /\ Len(top(parse_stack).mrow) >= 3
    /\ top(parse_stack).op_pair.op.op_type = INFIX
    /\ top(parse_stack).op_pair.op.priority = lastFind'.result.priority
    /\ ~SameFamily(top(parse_stack).op_pair.ch, children[i_child].text)

\* A's frame stays, without its right operand, and B's new frame starts with
\* that operand
MovesRightOperand(frame) ==
    /\ pc' = "scan"
    /\ reduce_stack(StOf(ScanState), lastFind'.result.priority).stack = parse_stack
    /\ Len(parse_stack') = Len(parse_stack) + 1
    /\ SubSeq(parse_stack', 1, Len(parse_stack) - 1)
           = SubSeq(parse_stack, 1, Len(parse_stack) - 1)
    /\ parse_stack'[Len(parse_stack)].mrow = SubSeq(frame.mrow, 1, Len(frame.mrow) - 1)
    /\ parse_stack'[Len(parse_stack)].op_pair = frame.op_pair
    /\ top(parse_stack').mrow = <<last_child_in_mrow(frame), children'[i_child]>>

EqualPriorityShifts == EqualPriorityStep => MovesRightOperand(top(parse_stack))

IsABC(kids) ==
    /\ Len(kids) = 5
    /\ \A k \in {1, 3, 5} : kids[k].name = "mi"
    /\ IsMo(kids[2], {"=", "<"}) /\ IsMo(kids[4], {"=", "<"})
    /\ kids[2].text # kids[4].text

\* a A b B c comes back as a A (b B c)
NestsRight ==
    (pc = "done" /\ IsABC(children)) =>
        /\ Len(result.children) = 3
        /\ SameLeaf(result.children[1], children[1])
        /\ SameLeaf(result.children[2], children[2])
        /\ result.children[3].name = "mrow"
        /\ Len(result.children[3].children) = 3
        /\ \A k \in 1..3 : SameLeaf(result.children[3].children[k], children[k + 2])

\* C29: for two consecutive infix operators A then B of equal priority that
\* are not n-ary-compatible, reduce_stack does not pop A's frame and
\* shift_stack moves A's right operand into a new frame for B; a A b B c
\* comes back as a A (b B c), B's group the last child of A's group.
C29_EqualPriorityNestsRight == [][EqualPriorityShifts]_vars /\ []NestsRight

\* x = x < x has been scanned into x = (x < x)
C29_Witness ==
    /\ pc = "done" /\ IsABC(children)
    /\ children[2].text = "=" /\ children[4].text = "<"
    /\ result.children[3].name = "mrow"
    /\ result.children[3].children[2].text = "<"

-----------------------------------------------------------------------------
(* The effect of is_trig_arg on the stack, canonicalize.rs 2972-3019 *)

\* the top operator is prefix minus and the frame directly below is the
\* function application of a trig function
PrefixMinusOverTrig(stack) ==
    /\ Len(stack) >= 2
    /\ top(stack).op_pair.op = PREFIX_MINUS
    /\ stack[Len(stack) - 1].op_pair.ch = "FA"
    /\ Len(stack[Len(stack) - 1].mrow) >= 1
    /\ IsTrigName(stack[Len(stack) - 1].mrow[1])

\* one reduce_stack_one_time: the top frame has become the last child of the
\* frame below
MergedOnce(stack, merged) ==
    /\ Len(merged) = Len(stack) - 1
    /\ SubSeq(merged, 1, Len(stack) - 2) = SubSeq(stack, 1, Len(stack) - 2)
    /\ top(merged).op_pair = stack[Len(stack) - 1].op_pair
    /\ top(merged).mrow = Append(stack[Len(stack) - 1].mrow, NewMrow(top(stack).mrow))

\* a plain operand after a plain operand
PlainAfterPlain(previous_child, current_child) ==
    /\ previous_child.name \in {"mi", "mn"}
    /\ current_child.name \in {"mi", "mn"}
    /\ current_child.text \notin FunctionNames

TrigFrameEffect(st, previous_child, current_child, answer) ==
    /\ ~answer.res => answer.st = st
    /\ answer.st # st => /\ answer.res
                         /\ PrefixMinusOverTrig(st.stack)
                         /\ MergedOnce(st.stack, answer.st.stack)
                         /\ answer.st.panic = "none"
    /\ (PrefixMinusOverTrig(st.stack) /\ PlainAfterPlain(previous_child, current_child))
           => answer.res /\ MergedOnce(st.stack, answer.st.stack)

\* is_trig_arg asked about the operand on top of the stack and the child the
\* loop is at
TrigArgFrame ==
    (/\ pc = "scan" /\ i_child <= Len(children)
     /\ IsSome(last_child_in_mrow(top(parse_stack)))
     /\ get_possible_embellished_node(last_child_in_mrow(top(parse_stack))).name # "mo"
     /\ get_possible_embellished_node(children[i_child]).name # "mo")
        => TrigFrameEffect(StOf(ScanState),
               get_possible_embellished_node(last_child_in_mrow(top(parse_stack))),
               get_possible_embellished_node(children[i_child]),
               is_trig_arg(get_possible_embellished_node(last_child_in_mrow(top(parse_stack))),
                           get_possible_embellished_node(children[i_child]),
                           StOf(ScanState)))

\* the step of the loop on a plain operand that follows the operand of a
\* prefix minus under a trig function
MinusUnderTrigStep ==
    /\ pc = "scan" /\ i_child <= Len(children) /\ i_child' = i_child + 1
    /\ PrefixMinusOverTrig(parse_stack)
    /\ top(parse_stack).is_operand
    /\ PlainAfterPlain(last_child_in_mrow(top(parse_stack)), children[i_child])

\* the prefix-minus frame was merged once, and the high-priority times took
\* the merged group as its left operand
MergedThenTimes ==
    MinusUnderTrigStep =>
        /\ pc' = "scan"
        /\ Len(parse_stack') = Len(parse_stack)
        /\ parse_stack'[Len(parse_stack) - 1].mrow = parse_stack[Len(parse_stack) - 1].mrow
        /\ top(parse_stack').op_pair.op = IMPLIED_TIMES_HIGH_PRIORITY
        /\ Len(top(parse_stack').mrow) = 3
        /\ top(parse_stack').mrow[1] = NewMrow(top(parse_stack).mrow)
        /\ IsAdded(top(parse_stack').mrow[2], "IT")
        /\ top(parse_stack').mrow[3] = children'[i_child]

\* C30: is_trig_arg leaves the parse stack unchanged whenever it returns
\* false; it changes the stack only when it returns true because the top
\* operator is prefix minus and the frame directly below is the function
\* application of a trig function, and then by exactly one
\* reduce_stack_one_time that merges the prefix-minus frame into the
\* function-application frame.
C30_TrigArgFrameEffect == [][MergedThenTimes]_vars /\ []TrigArgFrame

\* sin - 2 x: the step on x has merged the frame of - 2 into that of sin
C30_Witness ==
    /\ pc = "scan" /\ i_child = 5
    /\ IsTrigName(children[1]) /\ IsMo(children[2], {"-"})
    /\ children[3].name = "mn" /\ children[4].name = "mi"
    /\ Len(parse_stack) = 3
    /\ parse_stack[2].op_pair.ch = "FA"
    /\ top(parse_stack).op_pair.op = IMPLIED_TIMES_HIGH_PRIORITY
    /\ top(parse_stack).mrow[1].name = "mrow"
    /\ IsMo(top(parse_stack).mrow[1].children[1], {"-"})

====
